---- MODULE Spec2Model ----
(***************************************************************************)
(* welder: the schema <-> ABI type-descriptor converter (package ether,    *)
(* EtherParser), the reflective value-type builder (package builder) and   *)
(* the EthereumWelder that ties them together.                             *)
(*                                                                         *)
(* Strings that the code inspects character by character (element names)   *)
(* are sequences of one-character strings; every call returns a record     *)
(* whose field st tells a normal return ("ok"), an error return ("err")    *)
(* and a runtime fault that unwinds the caller ("panic") apart.            *)
(***************************************************************************)
EXTENDS Integers, Sequences, FiniteSets, TLC

VARIABLES schema, option, tables, builder, pc, args, elems, built, values,
          payload, params, packed, rebuilt, calls, slices

vars == <<schema, option, tables, builder, pc, args, elems, built, values,
          payload, params, packed, rebuilt, calls, slices>>

RECURSIVE SplitUnderscore(_, _, _, _)
RECURSIVE Join(_)
RECURSIVE StructOfCheck(_, _)
RECURSIVE GetType(_)
RECURSIVE encode(_)
RECURSIVE encodeObjectLoop(_, _, _, _)
RECURSIVE serializeLoop(_, _, _)
RECURSIVE decode(_)
RECURSIVE decodeObjectLoop(_, _, _)
RECURSIVE deserializeLoop(_, _, _)
RECURSIVE buildType(_, _)
RECURSIVE CallReflectFn(_, _, _)
RECURSIVE buildObjectLoop(_, _, _, _)
RECURSIVE BuildsLoop(_, _, _, _)

(***************************************************************************)
(* types.ElementType                                                       *)
(***************************************************************************)
TypesInt == "int"
TypesUint == "uint"
TypesFloat == "float"
TypesString == "string"
TypesBytes == "bytes"
TypesAddress == "address"
TypesBool == "boolean"
TypesArray == "array"
TypesObject == "object"
\* an ElementType string of the older vocabulary, outside types.* of package types
SchemaNumber == "number"

Element(name, type, size, children) ==
    [Name |-> name, Type |-> type, Size |-> size, Children |-> children]

(***************************************************************************)
(* abi.Type of the codec, as far as the parser reads and writes it.        *)
(* Elem is a pointer: <<>> is nil, <<t>> points to t.                      *)
(***************************************************************************)
IntTy == "IntTy"
UintTy == "UintTy"
BoolTy == "BoolTy"
StringTy == "StringTy"
SliceTy == "SliceTy"
ArrayTy == "ArrayTy"
TupleTy == "TupleTy"
AddressTy == "AddressTy"
FixedBytesTy == "FixedBytesTy"
BytesTy == "BytesTy"
HashTy == "HashTy"
FixedPointTy == "FixedPointTy"
FunctionTy == "FunctionTy"

NilType == [k |-> "nil"]

AbiType(t, size, elem, rawNames, tupleElems, tupleType) ==
    [T |-> t, Size |-> size, Elem |-> elem, TupleRawNames |-> rawNames,
     TupleElems |-> tupleElems, TupleType |-> tupleType]

\* abi.Type{}: the zero value, whose tag byte 0 is IntTy
emptyTy == AbiType(IntTy, 0, <<>>, <<>>, <<>>, NilType)

Prim(t) == AbiType(t, 0, <<>>, <<>>, <<>>, NilType)

(***************************************************************************)
(* Results.  (abi.Type, error) and (reflect.Type, error) pairs carry the   *)
(* returned value in ty; list results say whether the list is nil.         *)
(***************************************************************************)
NoErr == <<>>

TyOk(t) == [st |-> "ok", ty |-> t, err |-> NoErr]
TyErr(zero, e) == [st |-> "err", ty |-> zero, err |-> e]
TyPanic(zero, e) == [st |-> "panic", ty |-> zero, err |-> e]

ListOk(l) == [st |-> "ok", nil |-> FALSE, val |-> l, err |-> NoErr]
ListErr(e) == [st |-> "err", nil |-> TRUE, val |-> <<>>, err |-> e]
ListPanic(e) == [st |-> "panic", nil |-> TRUE, val |-> <<>>, err |-> e]
NotCalled == [st |-> "none", nil |-> TRUE, val |-> <<>>, err |-> NoErr]

\* the panic of a nil pointer dereference or of a call of a nil func
NilDereference == <<"runtime error: invalid memory address or nil pointer dereference">>

(***************************************************************************)
(* ToCamelCase: strings.Split on "_", upper-case the first byte of every   *)
(* non-empty part, strings.Join with "".                                   *)
(***************************************************************************)
ToUpper(c) ==
    CASE c = "a" -> "A"
      [] c = "b" -> "B"
      [] OTHER -> c

SplitUnderscore(input, i, cur, parts) ==
    IF i > Len(input) THEN Append(parts, cur)
    ELSE IF input[i] = "_" THEN SplitUnderscore(input, i + 1, <<>>, Append(parts, cur))
    ELSE SplitUnderscore(input, i + 1, Append(cur, input[i]), parts)

Join(parts) ==
    IF parts = <<>> THEN <<>> ELSE Head(parts) \o Join(Tail(parts))

UpperFirst(s) ==
    IF Len(s) > 0 THEN <<ToUpper(s[1])>> \o SubSeq(s, 2, Len(s)) ELSE s

UpperFirstAll(parts) == [i \in 1..Len(parts) |-> UpperFirst(parts[i])]

ToCamelCase(input) == Join(UpperFirstAll(SplitUnderscore(input, 1, <<>>, <<>>)))

(***************************************************************************)
(* reflect: the types the code asks for, and the two constructors that     *)
(* reject their arguments with a panic (StructOf, ArrayOf).                *)
(***************************************************************************)
GoString == [k |-> "string"]
GoBool == [k |-> "bool"]
GoInt(bits) == [k |-> "int", bits |-> bits]
GoUint(bits) == [k |-> "uint", bits |-> bits]
GoFloat(bits) == [k |-> "float", bits |-> bits]
GoBigInt == [k |-> "ptr", elem |-> [k |-> "big.Int"]]
GoByte == GoUint(8)
SliceOf(t) == [k |-> "slice", elem |-> t]
GoArray(n, t) == [k |-> "array", len |-> n, elem |-> t]
GoNamed(name, under) == [k |-> "named", name |-> name, under |-> under]
GoStruct(fields) == [k |-> "struct", fields |-> fields]
HexutilBytes == GoNamed("hexutil.Bytes", SliceOf(GoByte))
CommonAddress == GoNamed("common.Address", GoArray(20, GoByte))

StructField(name, type, tag) == [Name |-> name, Type |-> type, Tag |-> tag]

\* reflect.ArrayOf(length, elem)
ArrayOf(length, elem) ==
    IF length < 0
    THEN TyPanic(NilType, <<"reflect: negative length passed to ArrayOf">>)
    ELSE TyOk(GoArray(length, elem))

Letters == {"a", "b", "A", "B", "_"}
LowerOrUnderscore == {"a", "b", "_"}

isValidFieldName(fieldName) ==
    /\ Len(fieldName) > 0
    /\ \A i \in 1..Len(fieldName) : fieldName[i] \in Letters

\* the message of the first check of reflect.StructOf that field i fails, or NoErr
StructFieldFault(fields, i) ==
    LET f == fields[i]
    IN  IF f.Name = <<>> THEN <<"reflect.StructOf: field has no name", i - 1>>
        ELSE IF ~isValidFieldName(f.Name)
        THEN <<"reflect.StructOf: field has invalid name", i - 1>>
        ELSE IF f.Type = NilType THEN <<"reflect.StructOf: field has no type", i - 1>>
        ELSE IF f.Name[1] \in LowerOrUnderscore
        THEN <<"reflect.StructOf: field is unexported but missing PkgPath", i - 1>>
        ELSE IF \E j \in 1..(i - 1) : fields[j].Name = f.Name
        THEN <<"reflect.StructOf: duplicate field", i - 1>>
        ELSE NoErr

\* the loop of reflect.StructOf goes on to field i + 1 if field i has no fault
StructOfNext(fault, fields, i) ==
    IF fault # NoErr THEN fault ELSE StructOfCheck(fields, i + 1)

StructOfCheck(fields, i) ==
    IF i > Len(fields) THEN NoErr
    ELSE StructOfNext(StructFieldFault(fields, i), fields, i)

\* reflect.StructOf(fields)
StructOfResult(fault, fields) ==
    IF fault # NoErr THEN TyPanic(NilType, fault) ELSE TyOk(GoStruct(fields))

StructOf(fields) == StructOfResult(StructOfCheck(fields, 1), fields)

(***************************************************************************)
(* Struct tags: a tag is the list of its key:"value" pairs.                *)
(***************************************************************************)
TagPair(key, value) == [key |-> key, value |-> value]

\* a tag function that writes the field name in place of the raw name
CamelCaseStructTag(tag) ==
    <<TagPair("abi", ToCamelCase(tag)), TagPair("json", ToCamelCase(tag))>>

\* abi:"tag" json:"tag"
EtherStructTag(tag) == <<TagPair("abi", tag), TagPair("json", tag)>>

\* json:"tag"
DefaultStructTag(tag) == <<TagPair("json", tag)>>

NativeWidths == {8, 16, 32, 64}

\* abi.Type.GetType of the codec: the Go type Pack expects for a descriptor
reflectIntType(unsigned, size) ==
    IF size \in NativeWidths
    THEN (IF unsigned THEN GoUint(size) ELSE GoInt(size))
    ELSE GoBigInt

GetType(t) ==
    CASE t.T = IntTy -> reflectIntType(FALSE, t.Size)
      [] t.T = UintTy -> reflectIntType(TRUE, t.Size)
      [] t.T = BoolTy -> GoBool
      [] t.T = StringTy -> GoString
      [] t.T = SliceTy -> SliceOf(GetType(t.Elem[1]))
      [] t.T = ArrayTy -> GoArray(t.Size, GetType(t.Elem[1]))
      [] t.T = TupleTy -> t.TupleType
      [] t.T = AddressTy -> CommonAddress
      [] t.T = FixedBytesTy -> GoArray(t.Size, GoByte)
      [] t.T = BytesTy -> SliceOf(GoByte)
      [] OTHER -> NilType

(***************************************************************************)
(* EtherParser: schema -> descriptors                                      *)
(***************************************************************************)
encodeString(elem) ==
    IF elem.Type # TypesString
    THEN TyErr(emptyTy, <<"encodeString does not support type", elem.Type>>)
    ELSE TyOk(Prim(StringTy))

\* a conversion of Bytes nodes that is dynamic for size 0 only
encodeBytesExactZero(elem) ==
    IF elem.Type # TypesBytes
    THEN TyErr(emptyTy, <<"encodeBytes does not support type", elem.Type>>)
    ELSE IF elem.Size = 0 THEN TyOk(Prim(BytesTy))
    ELSE TyOk(AbiType(FixedBytesTy, elem.Size, <<>>, <<>>, <<>>, NilType))

encodeBytes(elem) ==
    IF elem.Type # TypesBytes
    THEN TyErr(emptyTy, <<"encodeBytes does not support type", elem.Type>>)
    ELSE IF elem.Size <= 0 THEN TyOk(Prim(BytesTy))
    ELSE TyOk(AbiType(FixedBytesTy, elem.Size, <<>>, <<>>, <<>>, NilType))

encodeAddress(elem) ==
    IF elem.Type # TypesAddress
    THEN TyErr(emptyTy, <<"encodeAddress does not support type", elem.Type>>)
    ELSE TyOk(Prim(AddressTy))

DefaultIntSize == 64

\* a conversion of Int/Uint nodes that sets no default width
encodeNumberNoDefault(elem) ==
    IF elem.Type \notin {TypesInt, TypesUint}
    THEN TyErr(emptyTy, <<"encodeNumber does not support type", elem.Type>>)
    ELSE TyOk(AbiType(IF elem.Type = TypesInt THEN IntTy ELSE UintTy, elem.Size,
                      <<>>, <<>>, <<>>, NilType))

encodeNumber(elem) ==
    IF elem.Type \notin {TypesInt, TypesUint}
    THEN TyErr(emptyTy, <<"encodeNumber does not support type", elem.Type>>)
    ELSE LET t == IF elem.Type = TypesInt THEN IntTy ELSE UintTy
         IN  IF elem.Size <= 0
             THEN TyOk(AbiType(t, DefaultIntSize, <<>>, <<>>, <<>>, NilType))
             ELSE TyOk(AbiType(t, elem.Size, <<>>, <<>>, <<>>, NilType))

encodeBool(elem) ==
    IF elem.Type # TypesBool
    THEN TyErr(emptyTy, <<"encodeBool does not support type", elem.Type>>)
    ELSE TyOk(Prim(BoolTy))

\* encodeArray once its child is converted: ty.Elem = &child
encodeArrayElem(ty, child) ==
    IF child.st # "ok" THEN child
    ELSE TyOk([ty EXCEPT !.Elem = <<child.ty>>])

encodeArray(elem) ==
    IF Len(elem.Children) # 1
    THEN TyErr(emptyTy, <<"array must have one child">>)
    ELSE encodeArrayElem(IF elem.Size > 0
                         THEN AbiType(ArrayTy, elem.Size, <<>>, <<>>, <<>>, NilType)
                         ELSE Prim(SliceTy),
                         encode(elem.Children[1]))

\* a loop body that puts each converted child in front of the ones before it
encodeObjectFieldReversed(children, i, ty, fields, tupleElem) ==
    IF tupleElem.st # "ok" THEN tupleElem
    ELSE encodeObjectLoop(children, i + 1,
            [ty EXCEPT !.TupleRawNames = <<children[i].Name>> \o @,
                       !.TupleElems = <<tupleElem.ty>> \o @],
            <<StructField(ToCamelCase(children[i].Name), GetType(tupleElem.ty),
                          EtherStructTag(children[i].Name))>> \o fields)

\* the end of encodeObject: ty.TupleType = reflect.StructOf(fields)
encodeObjectDone(ty, st) ==
    IF st.st = "panic" THEN TyPanic(emptyTy, st.err)
    ELSE TyOk([ty EXCEPT !.TupleType = st.ty])

\* the body of the loop of encodeObject for child i, once the child is converted
encodeObjectField(children, i, ty, fields, tupleElem) ==
    IF tupleElem.st # "ok" THEN tupleElem
    ELSE encodeObjectLoop(children, i + 1,
            [ty EXCEPT !.TupleRawNames = Append(@, children[i].Name),
                       !.TupleElems = Append(@, tupleElem.ty)],
            Append(fields, StructField(ToCamelCase(children[i].Name),
                                       GetType(tupleElem.ty),
                                       EtherStructTag(children[i].Name))))

\* the loop of encodeObject over elem.Children, from child i on
encodeObjectLoop(children, i, ty, fields) ==
    IF i > Len(children) THEN encodeObjectDone(ty, StructOf(fields))
    ELSE encodeObjectField(children, i, ty, fields, encode(children[i]))

\* a conversion of Object nodes without the check for children
encodeObjectUnchecked(elem) ==
    encodeObjectLoop(elem.Children, 1, Prim(TupleTy), <<>>)

encodeObject(elem) ==
    IF Len(elem.Children) = 0
    THEN TyErr(emptyTy, <<"object must have at least one child">>)
    ELSE encodeObjectLoop(elem.Children, 1, Prim(TupleTy), <<>>)

encode(elem) ==
    CASE elem.Type = TypesString -> encodeString(elem)
      [] elem.Type = TypesBytes -> encodeBytes(elem)
      [] elem.Type = TypesAddress -> encodeAddress(elem)
      [] elem.Type \in {TypesInt, TypesUint} -> encodeNumber(elem)
      [] elem.Type = TypesBool -> encodeBool(elem)
      [] elem.Type = TypesArray -> encodeArray(elem)
      [] elem.Type = TypesObject -> encodeObject(elem)
      [] OTHER -> TyErr(emptyTy, <<"parser does not support", elem.Type>>)

Argument(name, type) == [Name |-> name, Type |-> type]

\* the body of the loop of serialize for element i, once encode has returned r
serializeStep(elements, i, out, r) ==
    IF r.st = "panic" THEN ListPanic(r.err)
    ELSE IF r.st = "err" THEN ListErr(r.err)
    ELSE serializeLoop(elements, i + 1, Append(out, Argument(elements[i].Name, r.ty)))

\* the loop of serialize over elements, from element i on
serializeLoop(elements, i, out) ==
    IF i > Len(elements) THEN ListOk(out)
    ELSE serializeStep(elements, i, out, encode(elements[i]))

serialize(elements) == serializeLoop(elements, 1, <<>>)

Serialize(elements) == serialize(elements)

(***************************************************************************)
(* EtherParser: descriptors -> schema                                      *)
(***************************************************************************)
NoElement == Element(<<>>, "", 0, <<>>)

ElOk(e) == [st |-> "ok", el |-> e, err |-> NoErr]
ElErr(e) == [st |-> "err", el |-> NoElement, err |-> e]
ElPanic(e) == [st |-> "panic", el |-> NoElement, err |-> e]

decodeString(ty) ==
    IF ty.T # StringTy
    THEN ElErr(<<"decodeString does not support type", ty.T>>)
    ELSE ElOk(Element(<<>>, TypesString, 0, <<>>))

decodeBytes(ty) ==
    IF ty.T # FixedBytesTy /\ ty.T # BytesTy
    THEN ElErr(<<"decodeBytes does not support type", ty.T>>)
    ELSE ElOk(Element(<<>>, TypesBytes, ty.Size, <<>>))

decodeAddress(ty) ==
    IF ty.T # AddressTy
    THEN ElErr(<<"decodeAddress does not support type", ty.T>>)
    ELSE ElOk(Element(<<>>, TypesAddress, 0, <<>>))

\* a conversion of integer descriptors that forgets the width
decodeNumberDropsSize(ty) ==
    CASE ty.T = IntTy -> ElOk(Element(<<>>, TypesInt, 0, <<>>))
      [] ty.T = UintTy -> ElOk(Element(<<>>, TypesUint, 0, <<>>))
      [] OTHER -> ElErr(<<"decodeNumber does not support type", ty.T>>)

decodeNumber(ty) ==
    CASE ty.T = IntTy -> ElOk(Element(<<>>, TypesInt, ty.Size, <<>>))
      [] ty.T = UintTy -> ElOk(Element(<<>>, TypesUint, ty.Size, <<>>))
      [] OTHER -> ElErr(<<"decodeNumber does not support type", ty.T>>)

decodeBool(ty) ==
    IF ty.T # BoolTy
    THEN ElErr(<<"decodeBool does not support type", ty.T>>)
    ELSE ElOk(Element(<<>>, TypesBool, 0, <<>>))

\* a conversion of sequence descriptors that forgets the fixed length
decodeArrayElemDropsSize(ty, childEl) ==
    IF childEl.st # "ok" THEN childEl
    ELSE ElOk(Element(<<>>, TypesArray, 0, <<childEl.el>>))

\* a conversion of sequence descriptors that takes the size field of slices too
decodeArrayElemKeepsSize(ty, childEl) ==
    IF childEl.st # "ok" THEN childEl
    ELSE ElOk(Element(<<>>, TypesArray, ty.Size, <<childEl.el>>))

\* decodeArray once the element descriptor is converted
decodeArrayElem(ty, childEl) ==
    IF childEl.st # "ok" THEN childEl
    ELSE ElOk(Element(<<>>, TypesArray, IF ty.T = ArrayTy THEN ty.Size ELSE 0,
                      <<childEl.el>>))

decodeArray(ty) ==
    IF ty.T # SliceTy /\ ty.T # ArrayTy
    THEN ElErr(<<"decodeArray does not support type", ty.T>>)
    ELSE IF ty.Elem = <<>>
    THEN ElErr(<<"decodeArray does not support *abi.Type.Elem == nil">>)
    ELSE decodeArrayElem(ty, decode(ty.Elem[1]))

\* the body of the loop of decodeObject for field i, once the field is converted
decodeObjectField(ty, i, elem, childElem) ==
    IF childElem.st # "ok" THEN childElem
    ELSE decodeObjectLoop(ty, i + 1,
            [elem EXCEPT !.Children =
                Append(@, [childElem.el EXCEPT !.Name = ty.TupleRawNames[i]])])

\* the loop of decodeObject over ty.TupleElems, from field i on
decodeObjectLoop(ty, i, elem) ==
    IF i > Len(ty.TupleElems) THEN ElOk(elem)
    \* *childTy of a nil *abi.Type
    ELSE IF ty.TupleElems[i] = NilType THEN ElPanic(NilDereference)
    ELSE decodeObjectField(ty, i, elem, decode(ty.TupleElems[i]))

decodeObject(ty) ==
    IF Len(ty.TupleElems) # Len(ty.TupleRawNames)
    THEN ElErr(<<"decodeObject does not support invalid abi type">>)
    ELSE decodeObjectLoop(ty, 1, Element(<<>>, TypesObject, 0, <<>>))

decode(ty) ==
    CASE ty.T = StringTy -> decodeString(ty)
      [] ty.T \in {BytesTy, FixedBytesTy} -> decodeBytes(ty)
      [] ty.T = AddressTy -> decodeAddress(ty)
      [] ty.T \in {IntTy, UintTy} -> decodeNumber(ty)
      [] ty.T = BoolTy -> decodeBool(ty)
      [] ty.T \in {SliceTy, ArrayTy} -> decodeArray(ty)
      [] ty.T = TupleTy -> decodeObject(ty)
      [] OTHER -> ElErr(<<"elements does not support type", ty.T>>)

\* the body of the loop of deserialize for argument i, once decode has returned r
deserializeStep(as, i, out, r) ==
    IF r.st = "panic" THEN ListPanic(r.err)
    ELSE IF r.st = "err" THEN ListErr(r.err)
    ELSE deserializeLoop(as, i + 1, Append(out, [r.el EXCEPT !.Name = as[i].Name]))

\* the loop of deserialize over args, from argument i on
deserializeLoop(as, i, out) ==
    IF i > Len(as) THEN ListOk(out)
    ELSE deserializeStep(as, i, out, decode(as[i].Type))

deserialize(as) == deserializeLoop(as, 1, <<>>)

Deserialize(as) == deserialize(as)

(***************************************************************************)
(* builder: Option, Builder, New.  A map is held by reference: the field   *)
(* ReflectReplacers names an entry of tables, "nil" is the nil map.        *)
(***************************************************************************)
Option(replacers, structTag) ==
    [ReflectReplacers |-> replacers, StructTagReplacer |-> structTag]

\* var opt Option
ZeroOption == Option("nil", "nil")

EtherBuilderOptions == Option("EtherReflectFns", "EtherStructTag")

\* make(map[types.ElementType]ReflectFn)
DefaultReflectReplacers == [k \in {} |-> "nil"]

EtherReflectFns ==
    [k \in {TypesAddress, TypesBytes, TypesFloat} |->
        CASE k = TypesAddress -> "ReflectAddressFn"
          [] k = TypesBytes -> "ReflectBytesFn"
          [] k = TypesFloat -> "ReflectFloatFn"]

New(opts) ==
    LET opt == IF Len(opts) > 0 THEN opts[1] ELSE ZeroOption
    IN  [ReflectReplacers |->
            IF opt.ReflectReplacers = "nil" THEN "DefaultReflectReplacers"
            ELSE opt.ReflectReplacers,
         \* a nil opt.StructTagReplacer sets opt's field, and leaves the Builder's nil
         StructTagReplacer |->
            IF opt.StructTagReplacer = "nil" THEN "nil"
            ELSE opt.StructTagReplacer]

NewEthereumBuilder == New(<<EtherBuilderOptions>>)

\* b.StructTagReplacer(name)
CallStructTagFn(fn, name) ==
    CASE fn = "EtherStructTag" -> [st |-> "ok", tag |-> EtherStructTag(name), err |-> NoErr]
      [] fn = "DefaultStructTag" -> [st |-> "ok", tag |-> DefaultStructTag(name), err |-> NoErr]
      [] OTHER -> [st |-> "panic", tag |-> <<>>, err |-> NilDereference]

\* a Float constructor that builds the type instead of rejecting the kind
ReflectFloatFnBuilds(elem) == TyOk(GoFloat(64))

ReflectFloatFn(elem) ==
    TyErr(NilType, <<"EVM compatibility does not support float types", elem.Type>>)

ReflectAddressFn(elem) == TyOk(CommonAddress)

ReflectBytesFn(elem) ==
    IF elem.Size = 0 THEN TyOk(HexutilBytes)
    ELSE ArrayOf(elem.Size, GoByte)

buildString(elem) == TyOk(GoString)

buildUint(elem) ==
    CASE elem.Size = 8 -> TyOk(GoUint(8))
      [] elem.Size = 16 -> TyOk(GoUint(16))
      [] elem.Size = 32 -> TyOk(GoUint(32))
      [] elem.Size \in {0, 64} -> TyOk(GoUint(64))
      [] OTHER -> TyOk(GoBigInt)

\* a signed constructor that yields the unsigned types
buildIntUnsigned(elem) == buildUint(elem)

buildInt(elem) ==
    CASE elem.Size = 8 -> TyOk(GoInt(8))
      [] elem.Size = 16 -> TyOk(GoInt(16))
      [] elem.Size = 32 -> TyOk(GoInt(32))
      [] elem.Size \in {0, 64} -> TyOk(GoInt(64))
      [] OTHER -> TyOk(GoBigInt)

buildFloat(elem) ==
    CASE elem.Size = 32 -> TyOk(GoFloat(32))
      [] elem.Size \in {0, 64} -> TyOk(GoFloat(64))
      [] OTHER -> TyErr(NilType, <<"Builder does not support type with size",
                                   elem.Type, elem.Size>>)

buildBool(elem) == TyOk(GoBool)

buildBytes(elem) == TyOk(SliceOf(GoByte))

buildAddress(elem) == TyErr(NilType, <<"Builder does not support type", TypesAddress>>)

\* buildArray once its child's type is built
buildArrayElem(r) ==
    IF r.st # "ok" THEN r ELSE TyOk(SliceOf(r.ty))

\* a constructor of Array nodes that takes any number of children
buildArrayAnyArity(b, elem) ==
    IF Len(elem.Children) = 0 THEN TyOk(SliceOf(GoString))
    ELSE buildArrayElem(buildType(b, elem.Children[1]))

buildArray(b, elem) ==
    IF Len(elem.Children) # 1
    THEN TyErr(NilType, <<"array must have one child">>)
    ELSE buildArrayElem(buildType(b, elem.Children[1]))

\* the body of the loop of buildObject for child i: the child's type, then the tag
buildObjectField(b, children, i, fields, childTy, tag) ==
    IF childTy.st # "ok" THEN childTy
    ELSE IF tag.st = "panic" THEN TyPanic(NilType, tag.err)
    ELSE buildObjectLoop(b, children, i + 1,
            Append(fields, StructField(ToCamelCase(children[i].Name),
                                       childTy.ty, tag.tag)))

\* the loop of buildObject over elem.Children, from child i on
buildObjectLoop(b, children, i, fields) ==
    IF i > Len(children) THEN StructOf(fields)
    ELSE buildObjectField(b, children, i, fields, buildType(b, children[i]),
                          CallStructTagFn(b.StructTagReplacer, children[i].Name))

buildObject(b, elem) ==
    IF Len(elem.Children) = 0
    THEN TyErr(NilType, <<"object must have at least one child">>)
    ELSE buildObjectLoop(b, elem.Children, 1, <<>>)

\* fn(elem), for the constructors of the package, of package ether, and the
\* two a caller's table holds here: one that faults, one that is a nil func
CallReflectFn(b, fn, elem) ==
    CASE fn = "buildString" -> buildString(elem)
      [] fn = "buildInt" -> buildInt(elem)
      [] fn = "buildUint" -> buildUint(elem)
      [] fn = "buildFloat" -> buildFloat(elem)
      [] fn = "buildBool" -> buildBool(elem)
      [] fn = "buildBytes" -> buildBytes(elem)
      [] fn = "buildAddress" -> buildAddress(elem)
      [] fn = "buildArray" -> buildArray(b, elem)
      [] fn = "buildObject" -> buildObject(b, elem)
      [] fn = "ReflectAddressFn" -> ReflectAddressFn(elem)
      [] fn = "ReflectBytesFn" -> ReflectBytesFn(elem)
      [] fn = "ReflectFloatFn" -> ReflectFloatFn(elem)
      [] fn = "CallerFaultFn" -> TyPanic(NilType, <<"caller's constructor faults">>)
      [] OTHER -> TyPanic(NilType, NilDereference)

unwrapReplacer(b, elem, defaultFn, replacerFns) ==
    IF elem.Type \in DOMAIN replacerFns
    THEN CallReflectFn(b, replacerFns[elem.Type], elem)
    ELSE CallReflectFn(b, defaultFn, elem)

buildType(b, elem) ==
    CASE elem.Type = TypesString -> unwrapReplacer(b, elem, "buildString", tables[b.ReflectReplacers])
      [] elem.Type = TypesInt -> unwrapReplacer(b, elem, "buildInt", tables[b.ReflectReplacers])
      [] elem.Type = TypesUint -> unwrapReplacer(b, elem, "buildUint", tables[b.ReflectReplacers])
      [] elem.Type = TypesFloat -> unwrapReplacer(b, elem, "buildFloat", tables[b.ReflectReplacers])
      [] elem.Type = TypesBool -> unwrapReplacer(b, elem, "buildBool", tables[b.ReflectReplacers])
      [] elem.Type = TypesBytes -> unwrapReplacer(b, elem, "buildBytes", tables[b.ReflectReplacers])
      [] elem.Type = TypesAddress -> unwrapReplacer(b, elem, "buildAddress", tables[b.ReflectReplacers])
      [] elem.Type = TypesArray -> unwrapReplacer(b, elem, "buildArray", tables[b.ReflectReplacers])
      [] elem.Type = TypesObject -> unwrapReplacer(b, elem, "buildObject", tables[b.ReflectReplacers])
      [] OTHER -> TyErr(NilType, <<"Builder does not support type", elem.Type>>)

NoValue == NilType
PointerTo(ty) == [k |-> "ptr", elem |-> ty]

ValOk(v) == [st |-> "ok", nil |-> FALSE, val |-> v, err |-> NoErr]
ValErr(e) == [st |-> "err", nil |-> TRUE, val |-> NoValue, err |-> e]
ValPanic(e) == [st |-> "panic", nil |-> TRUE, val |-> NoValue, err |-> e]

\* Build after buildType has returned r: reflect.New(ty).Interface()
BuildValue(r) ==
    IF r.st = "panic" THEN ValPanic(r.err)
    ELSE IF r.st = "err" THEN ValErr(r.err)
    ELSE IF r.ty = NilType THEN ValPanic(<<"reflect: New(nil)">>)
    ELSE ValOk(PointerTo(r.ty))

\* the body of Build: buildType, then reflect.New(ty).Interface()
BuildBody(b, elem) == BuildValue(buildType(b, elem))

\* a Build without the deferred function: a panic goes on to the caller
NoRecover(r) == r

\* the deferred function of Build: recover() turns a panic into the error result
Recover(r) == IF r.st = "panic" THEN ValErr(r.err) ELSE r

Build(b, elem) == Recover(BuildBody(b, elem))

\* the body of the loop of Builds for element i, once Build has returned r
BuildsStep(b, elements, i, out, r) ==
    IF r.st = "panic" THEN ListPanic(r.err)
    ELSE IF r.st = "err" THEN ListErr(r.err)
    ELSE BuildsLoop(b, elements, i + 1, Append(out, r.val))

\* the loop of Builds over elements, from element i on
BuildsLoop(b, elements, i, out) ==
    IF i > Len(elements) THEN ListOk(out)
    ELSE BuildsStep(b, elements, i, out, Build(b, elements[i]))

Builds(b, elements) == BuildsLoop(b, elements, 1, <<>>)

(***************************************************************************)
(* encoding/json, as Weld uses it: json.Unmarshal(data, &result) with      *)
(* result a []any of pointers.  A document is its top-level kind and, for  *)
(* an array, per item whether the target of that position accepts it.      *)
(***************************************************************************)
JsonArray(items) == [kind |-> "array", items |-> items]
JsonObject == [kind |-> "object", items |-> <<>>]
JsonNull == [kind |-> "null", items |-> <<>>]

\* what a position beyond len(result) decodes to: a value of no synthesized type
GenericValue == [k |-> "interface"]

JsonUnmarshal(data, result) ==
    \* null sets the slice to nil, and is no error
    IF data.kind = "null" THEN [ListOk(<<>>) EXCEPT !.nil = TRUE]
    ELSE IF data.kind # "array"
    THEN ListErr(<<"json: cannot unmarshal into Go value of type []interface {}", data.kind>>)
    ELSE IF \E i \in 1..Len(data.items) : i <= Len(result) /\ data.items[i] = "mismatch"
    THEN ListErr(<<"json: cannot unmarshal into Go value">>)
    ELSE ListOk([i \in 1..Len(data.items) |->
                    IF i <= Len(result) THEN result[i] ELSE GenericValue])

\* Weld after Builds: json.Unmarshal(data, &result)
WeldUnmarshal(result, data) ==
    IF result.st # "ok" THEN result ELSE JsonUnmarshal(data, result.val)

Weld(b, elements, data) == WeldUnmarshal(Builds(b, elements), data)

(***************************************************************************)
(* AbiElements.Encode / EncodeWithFunctionSignature over the codec's Pack  *)
(***************************************************************************)
KindOf(t) ==
    LET u == IF t.k = "named" THEN t.under ELSE t
    IN  IF u.k \in {"int", "uint", "float"} THEN <<u.k, u.bits>> ELSE <<u.k>>

\* Pack looks through a pointer, except a pointer to big.Int
Indirect(v) ==
    IF v.k = "ptr" /\ v # GoBigInt THEN v.elem ELSE v

typeCheck(t, v) ==
    IF t.T \in {SliceTy, ArrayTy}
    THEN /\ KindOf(v) \in {<<"slice">>, <<"array">>}
         /\ KindOf((IF v.k = "named" THEN v.under ELSE v).elem) = KindOf(GetType(t.Elem[1]))
    ELSE KindOf(GetType(t)) = KindOf(v)

Pack(a, vs) ==
    IF Len(vs) # Len(a)
    THEN ListErr(<<"abi: argument count mismatch", Len(vs), Len(a)>>)
    ELSE IF \E i \in 1..Len(a) : ~typeCheck(a[i].Type, Indirect(vs[i]))
    THEN ListErr(<<"abi: cannot use value as type">>)
    ELSE ListOk(vs)

Encode(a, vs) == Pack(a, vs)

\* the bytes returned: the 4-byte selector of the signature, if any, and the packed values
CallData(signature, data) == [signature |-> signature, data |-> data]

TrimSpace(name) == IF name = " " THEN "" ELSE name

\* EncodeWithFunctionSignature after Encode: the selector goes before the data
PrependSelector(name, data) ==
    IF data.st # "ok" THEN ListErr(<<"failed to encode values">> \o data.err)
    ELSE IF TrimSpace(name) = "" THEN ListOk(CallData("", data.val))
    ELSE ListOk(CallData(TrimSpace(name), data.val))

EncodeWithFunctionSignature(a, name, vs) == PrependSelector(name, Encode(a, vs))

\* a []any passed where one value is expected: a slice whose elements are interfaces
AnySlice(l) == [k |-> "slice", elem |-> GenericValue, items |-> l]

(***************************************************************************)
(* Inputs: schemas, builder options and payloads a caller can pass.        *)
(***************************************************************************)
MaxSize == 1
MaxTop == 2

Sizes == ((0 - 1)..MaxSize) \cup NativeWidths
ArraySizes == (0 - 1)..MaxSize

Kinds == {TypesString, TypesInt, TypesUint, TypesBool, TypesBytes, TypesAddress,
          TypesArray, TypesObject, TypesFloat, SchemaNumber}

NoName == <<>>
NameA == <<"a">>
NameB == <<"b">>
Names == {NoName, NameA, NameB, <<"A">>, <<"a", "_", "b">>, <<"a", "B">>, <<"-">>}

Leaf(k, n, s) == Element(n, k, s, <<>>)

Singles(S) == {<<x>> : x \in S}
Pairs(S) == {<<x, y>> : x \in S, y \in S}

TopLeaves == {Leaf(k, n, s) : k \in Kinds, n \in {NoName, NameA}, s \in Sizes}

KidsByKind == {Leaf(k, NameA, 0) : k \in Kinds}
KidsBySize == {Leaf(k, NameB, s) :
                  k \in {TypesInt, TypesUint, TypesBytes, TypesString}, s \in Sizes}
KidsByName == {Leaf(TypesString, n, 0) : n \in Names}
Kids == KidsByKind \cup KidsBySize \cup KidsByName

PairKids ==
    {Leaf(TypesString, NameA, 0), Leaf(TypesString, <<"A">>, 0),
     Leaf(TypesInt, NameB, 0), Leaf(TypesString, <<"a", "_", "b">>, 0),
     Leaf(TypesString, <<"a", "B">>, 0), Leaf(TypesString, NoName, 0),
     Leaf(TypesArray, NameB, 0), Leaf(TypesFloat, NameB, 0)}

Level1 ==
    {Element(NoName, k, s, ch) :
        k \in {TypesArray, TypesObject}, s \in ArraySizes,
        ch \in Singles(Kids) \cup Pairs(PairKids)}

ValidObject == Element(NameA, TypesObject, 0,
                       <<Leaf(TypesString, NameA, 0), Leaf(TypesInt, NameB, 0)>>)
FaultyObject == Element(NameA, TypesObject, 0, <<Leaf(TypesString, NoName, 0)>>)
EmptyArray == Element(NameB, TypesArray, 0, <<>>)
EmptyObject == Element(NameB, TypesObject, 0, <<>>)

Mid ==
    {ValidObject, FaultyObject, EmptyArray, EmptyObject,
     Element(NameA, TypesArray, 0, <<Leaf(TypesString, NoName, 0)>>),
     Element(NameA, TypesArray, 1, <<Leaf(TypesUint, NameB, 8)>>),
     Element(NameA, TypesArray, 0, <<Leaf(TypesString, NoName, 0), Leaf(TypesBool, NoName, 0)>>),
     Element(NameB, TypesString, 1, <<Element(NoName, TypesArray, 0, <<>>)>>),
     Element(NameB, TypesBytes, 0, <<Element(NoName, TypesObject, 0, <<>>)>>),
     Leaf(TypesString, NameB, 0), Leaf(TypesAddress, NameB, 0),
     Leaf(TypesFloat, NameB, 0), Leaf(TypesBytes, NameB, 0 - 1)}

Level2 ==
    {Element(NoName, k, s, ch) :
        k \in {TypesArray, TypesObject}, s \in {0, 1},
        ch \in Singles(Mid) \cup Pairs(Mid)}
    \cup {Element(NoName, k, 0, <<c>>) :
            k \in {TypesString, TypesBytes, TypesAddress, TypesBool, TypesInt}, c \in Mid}

Deep ==
    {Element(NameA, TypesArray, 0, <<ValidObject>>),
     Element(NameA, TypesArray, 1, <<Element(NoName, TypesArray, 0, <<EmptyArray>>)>>),
     Element(NameA, TypesObject, 0,
             <<Element(NameB, TypesArray, 0, <<EmptyObject>>)>>),
     Element(NameB, TypesObject, 0, <<Leaf(TypesString, NameA, 0), FaultyObject>>),
     Element(NameB, TypesArray, 0, <<Element(NameA, TypesArray, 1, <<ValidObject>>)>>)}

Level3 ==
    {Element(NoName, k, 0, ch) :
        k \in {TypesArray, TypesObject}, ch \in Singles(Deep) \cup Pairs(Deep)}

Nodes == TopLeaves \cup Level1 \cup Level2 \cup Level3

TopSmall ==
    {Leaf(TypesString, NoName, 0), Leaf(TypesUint, NameA, 0), ValidObject,
     FaultyObject, EmptyArray, Leaf(TypesFloat, NoName, 0)}

RECURSIVE ListsOver(_, _)
ListsOver(S, n) ==
    IF n = 0 THEN {<<>>}
    ELSE {Append(l, x) : l \in ListsOver(S, n - 1), x \in S}

Schemas ==
    Singles(Nodes) \cup UNION {ListsOver(TopSmall, n) : n \in (0..MaxTop) \ {1}}

\* a table a caller passes in an Option: a constructor that faults, a nil func, and
\* a working constructor for a kind of the caller's own
CallerFns ==
    [k \in {TypesString, TypesBool, SchemaNumber} |->
        CASE k = TypesString -> "CallerFaultFn"
          [] k = TypesBool -> "nil"
          [] k = SchemaNumber -> "ReflectAddressFn"]

Options ==
    {<<>>, <<EtherBuilderOptions>>, <<Option("CallerFns", "DefaultStructTag")>>}

Payloads(n) ==
    {JsonObject, JsonNull}
    \cup {JsonArray([i \in 1..m |-> "match"]) : m \in 0..(n + 1)}
    \cup {JsonArray([i \in 1..m |-> IF i = 1 THEN "mismatch" ELSE "match"]) : m \in {n} \ {0}}

FunctionSignatures == {"", "getData(string)"}

\* descriptors a caller holds that did not come from Serialize: abi.Type values
\* written by hand or parsed from a contract's ABI
Sequence(t, size, elem) == AbiType(t, size, elem, <<>>, <<>>, NilType)
Tuple(names, fieldTypes) == AbiType(TupleTy, 0, <<>>, names, fieldTypes, NilType)

LeafDescriptors ==
    {Prim(StringTy), Prim(BoolTy), Prim(AddressTy), Prim(BytesTy),
     AbiType(FixedBytesTy, 1, <<>>, <<>>, <<>>, NilType),
     AbiType(IntTy, 8, <<>>, <<>>, <<>>, NilType),
     AbiType(UintTy, 64, <<>>, <<>>, <<>>, NilType)}

UnknownDescriptors == {Prim(HashTy), Prim(FixedPointTy), Prim(FunctionTy)}

MissingElem == Sequence(SliceTy, 0, <<>>)
InconsistentTuple == Tuple(<<NameA>>, <<>>)
EmptyTuple == Tuple(<<>>, <<>>)
NilFieldTuple == Tuple(<<NameA>>, <<NilType>>)
ValidTuple == Tuple(<<NameA, NameB>>, <<Prim(StringTy), Prim(BoolTy)>>)

\* a leaf descriptor whose unused fields hold descriptors
LeafOver(d) ==
    [Prim(StringTy) EXCEPT !.Elem = <<d>>, !.TupleElems = <<d>>, !.TupleRawNames = <<NameA>>]

Descriptors1 ==
    {Sequence(t, size, e) :
        t \in {SliceTy, ArrayTy}, size \in 0..MaxSize,
        e \in {<<>>} \cup Singles(LeafDescriptors \cup UnknownDescriptors)}
    \cup {Tuple(<<NameA>>, <<d>>) : d \in LeafDescriptors \cup UnknownDescriptors}
    \cup {InconsistentTuple, EmptyTuple, NilFieldTuple, ValidTuple,
          Tuple(<<NameA, NameB>>, <<Prim(StringTy)>>)}

MidDescriptors ==
    {MissingElem, Sequence(ArrayTy, 1, <<>>), InconsistentTuple, EmptyTuple,
     NilFieldTuple, ValidTuple, Prim(HashTy), Prim(StringTy),
     Sequence(ArrayTy, 1, <<Prim(StringTy)>>), Sequence(SliceTy, 1, <<Prim(BoolTy)>>),
     LeafOver(MissingElem), LeafOver(InconsistentTuple), LeafOver(Prim(FunctionTy))}

Descriptors2 ==
    {Sequence(t, size, <<m>>) :
        t \in {SliceTy, ArrayTy}, size \in 0..MaxSize, m \in MidDescriptors}
    \cup {Tuple(<<NameA, NameB>>, <<m, n>>) :
            m \in MidDescriptors \cup {NilType}, n \in MidDescriptors}

Descriptors ==
    LeafDescriptors \cup UnknownDescriptors \cup Descriptors1 \cup MidDescriptors
        \cup Descriptors2

GivenArguments ==
    {<<Argument(n, d)>> : n \in {NoName, NameB}, d \in Descriptors}
    \cup {<<>>, <<Argument(NameA, ValidTuple), Argument(NameB, MissingElem)>>,
          <<Argument(NameA, NilFieldTuple), Argument(NameB, Prim(HashTy))>>,
          <<Argument(NameA, Prim(StringTy)), Argument(NoName, ValidTuple)>>}

(***************************************************************************)
(* The program: a welder is constructed, then the caller runs Serialize,   *)
(* Deserialize, Build, Builds, Weld and EncodeWithFunctionSignature on the *)
(* schema, each call keeping its result.                                   *)
(***************************************************************************)
Init ==
    /\ schema \in Schemas
    /\ option \in Options
    /\ tables = [t \in {"DefaultReflectReplacers", "EtherReflectFns", "CallerFns"} |->
                    CASE t = "DefaultReflectReplacers" -> DefaultReflectReplacers
                      [] t = "EtherReflectFns" -> EtherReflectFns
                      [] t = "CallerFns" -> CallerFns]
    /\ builder = New(option)
    /\ pc = "start"
    /\ args = NotCalled
    /\ elems = NotCalled
    /\ built = [i |-> 0, res |-> NotCalled]
    /\ values = NotCalled
    /\ payload = JsonObject
    /\ params = NotCalled
    /\ packed = NotCalled
    /\ rebuilt = NotCalled
    /\ calls = <<>>
    /\ slices = <<>>

DoSerialize ==
    /\ pc = "start"
    /\ args' = Serialize(schema)
    /\ pc' = "serialized"
    /\ UNCHANGED <<schema, option, tables, builder, elems, built, values, payload,
                   params, packed,
                   rebuilt, calls, slices>>

DoDeserialize ==
    /\ pc = "serialized"
    /\ args.st = "ok"
    /\ elems' = Deserialize(args.val)
    /\ pc' = "deserialized"
    /\ UNCHANGED <<schema, option, tables, builder, args, built, values, payload,
                   params, packed,
                   rebuilt, calls, slices>>

DoBuild ==
    /\ pc \in {"serialized", "deserialized"}
    /\ pc = "serialized" => args.st # "ok"
    /\ \E i \in 1..Len(schema) :
          built' = [i |-> i, res |-> Build(builder, schema[i])]
    /\ pc' = "built"
    /\ UNCHANGED <<schema, option, tables, builder, args, elems, values, payload,
                   params, packed,
                   rebuilt, calls, slices>>

DoBuilds ==
    /\ \/ pc = "built"
       \/ pc \in {"serialized", "deserialized"} /\ Len(schema) = 0
    /\ values' = Builds(builder, schema)
    /\ pc' = "builds"
    /\ UNCHANGED <<schema, option, tables, builder, args, elems, built, payload,
                   params, packed,
                   rebuilt, calls, slices>>

DoWeld ==
    /\ pc = "builds"
    /\ \E data \in Payloads(Len(schema)) :
          /\ payload' = data
          /\ params' = Weld(builder, schema, data)
    /\ pc' = "welded"
    /\ UNCHANGED <<schema, option, tables, builder, args, elems, built, values, packed,
                   rebuilt, calls, slices>>

\* args.EncodeWithFunctionSignature(functionSig, params): params is passed without
\* "...", so the variadic values hold one element, the []any itself
DoEncode ==
    /\ pc = "welded"
    /\ args.st = "ok"
    /\ params.st = "ok"
    /\ \E name \in FunctionSignatures :
          packed' = EncodeWithFunctionSignature(args.val, name, <<AnySlice(params.val)>>)
    /\ pc' = "encoded"
    /\ UNCHANGED <<schema, option, tables, builder, args, elems, built, values, payload,
                   params,
                   rebuilt, calls, slices>>

Next ==
    \/ DoSerialize
    \/ DoDeserialize
    \/ DoBuild
    \/ DoBuilds
    \/ DoWeld
    \/ DoEncode

Spec == Init /\ [][Next]_vars

(***************************************************************************)
(* The program of a caller that holds descriptors of its own and runs      *)
(* Deserialize on them.                                                    *)
(***************************************************************************)
GivenInit ==
    /\ schema = <<>>
    /\ option = <<>>
    /\ tables = [t \in {"DefaultReflectReplacers", "EtherReflectFns", "CallerFns"} |->
                    CASE t = "DefaultReflectReplacers" -> DefaultReflectReplacers
                      [] t = "EtherReflectFns" -> EtherReflectFns
                      [] t = "CallerFns" -> CallerFns]
    /\ builder = New(option)
    /\ pc = "serialized"
    /\ args \in {ListOk(l) : l \in GivenArguments}
    /\ elems = NotCalled
    /\ built = [i |-> 0, res |-> NotCalled]
    /\ values = NotCalled
    /\ payload = JsonObject
    /\ params = NotCalled
    /\ packed = NotCalled
    /\ rebuilt = NotCalled
    /\ calls = <<>>
    /\ slices = <<>>

GivenNext == DoDeserialize

GivenSpec == GivenInit /\ [][GivenNext]_vars

(***************************************************************************)
(* The program of a caller that changes an override table after New has    *)
(* returned, and then runs Build again on the same node.  The tables are   *)
(* Go maps: the Option, the Builder and the package-level variables hold   *)
(* references to them.                                                     *)
(***************************************************************************)
\* m[k] = fn
Put(m, k, fn) == [x \in DOMAIN m \cup {k} |-> IF x = k THEN fn ELSE m[x]]

\* Builders of other New and NewEthereum calls
OtherBuilders == {New(<<>>), NewEthereumBuilder, New(<<Option("CallerFns", "nil")>>)}

ChangedKinds == {TypesString, TypesAddress, TypesFloat}
ChangedFns == {"ReflectAddressFn", "ReflectFloatFn"}

LaterInit ==
    /\ Init
    /\ Len(schema) = 1
    /\ schema[1] \in TopLeaves \cup Level1

\* other.ReflectReplacers[k] = fn: the same map as the one passed in the Option
\* (CallerFns), builder.DefaultReflectReplacers or ether.EtherReflectFns
DoChange ==
    /\ pc = "built"
    /\ \E other \in OtherBuilders, k \in ChangedKinds, fn \in ChangedFns :
          tables' = [tables EXCEPT ![other.ReflectReplacers] = Put(@, k, fn)]
    /\ pc' = "changed"
    /\ UNCHANGED <<schema, option, builder, args, elems, built, values, payload,
                   params, packed, rebuilt, calls, slices>>

DoBuildAgain ==
    /\ pc = "changed"
    /\ rebuilt' = Build(builder, schema[built.i])
    /\ pc' = "rebuilt"
    /\ UNCHANGED <<schema, option, tables, builder, args, elems, built, values,
                   payload, params, packed, calls, slices>>

LaterNext ==
    \/ DoSerialize
    \/ DoDeserialize
    \/ DoBuild
    \/ DoChange
    \/ DoBuildAgain

LaterSpec == LaterInit /\ [][LaterNext]_vars

(***************************************************************************)
(* Concurrent calls on one parser and one Builder.  Each call runs one     *)
(* step at a time: it makes its slice, goes through its loop one element   *)
(* at a time and returns; the steps of the calls interleave.  A step is    *)
(* given the memory the call can reach (the schema, the descriptor list,   *)
(* the payload, the Builder, the tables, and the calls' slices) and gives  *)
(* the memory it leaves.                                                   *)
(***************************************************************************)
CallIds == {1, 2}

Memory ==
    [schema |-> schema, args |-> args, payload |-> payload, builder |-> builder,
     tables |-> tables, calls |-> calls, slices |-> slices]

\* a call of op that has not begun; node is the index of the node given to Build
Call(op, node) == [op |-> op, node |-> node, at |-> "make", i |-> 1, res |-> NotCalled]

IndexOutOfRange == <<"runtime error: index out of range">>

\* a slice kept in one place for all calls
SharedSlice(c) == 1

\* args, elements, values: the slice a call makes is held in a local variable of
\* the call
LocalSlice(c) == c

\* return r
Return(m, c, r) == [m EXCEPT !.calls[c].at = "done", !.calls[c].res = r]

\* the body of the loop of serialize for the call's element, once encode has
\* returned r: args[i].Type, err = r; args[i].Name = elem.Name
serializeRange(m, c, i, r) ==
    IF i > Len(m.slices[LocalSlice(c)]) THEN Return(m, c, ListPanic(IndexOutOfRange))
    ELSE IF r.st = "panic" THEN Return(m, c, ListPanic(r.err))
    ELSE IF r.st = "err"
    THEN Return([m EXCEPT !.slices[LocalSlice(c)][i].Type = r.ty], c, ListErr(r.err))
    ELSE [m EXCEPT !.slices[LocalSlice(c)][i] = Argument(m.schema[i].Name, r.ty),
                   !.calls[c].i = i + 1]

\* one step of serialize: make(T, len(elements)), one turn of the loop, or return
serializeCall(m, c) ==
    CASE m.calls[c].at = "make" ->
            [m EXCEPT !.slices[LocalSlice(c)] =
                          [k \in 1..Len(m.schema) |-> Argument(<<>>, emptyTy)],
                      !.calls[c].at = "range"]
      [] m.calls[c].at = "range" /\ m.calls[c].i <= Len(m.schema) ->
            serializeRange(m, c, m.calls[c].i, encode(m.schema[m.calls[c].i]))
      [] OTHER -> Return(m, c, ListOk(m.slices[LocalSlice(c)]))

\* a loop body that writes the name the other way round: arg.Name = elem.Name
deserializeRangeRenamesArg(m, c, i, r) ==
    IF i > Len(m.slices[LocalSlice(c)]) THEN Return(m, c, ListPanic(IndexOutOfRange))
    ELSE IF r.st = "panic" THEN Return(m, c, ListPanic(r.err))
    ELSE IF r.st = "err" THEN Return(m, c, ListErr(r.err))
    ELSE [m EXCEPT !.args.val[i].Name = r.el.Name,
                   !.slices[LocalSlice(c)][i] = r.el,
                   !.calls[c].i = i + 1]

\* the body of the loop of deserialize for the call's argument, once decode has
\* returned r: elem.Name = arg.Name; elements[i] = *elem
deserializeRange(m, c, i, r) ==
    IF i > Len(m.slices[LocalSlice(c)]) THEN Return(m, c, ListPanic(IndexOutOfRange))
    ELSE IF r.st = "panic" THEN Return(m, c, ListPanic(r.err))
    ELSE IF r.st = "err" THEN Return(m, c, ListErr(r.err))
    ELSE [m EXCEPT !.slices[LocalSlice(c)][i] = [r.el EXCEPT !.Name = m.args.val[i].Name],
                   !.calls[c].i = i + 1]

\* one step of deserialize: make(types.Elements, len(args)), one turn, or return
deserializeCall(m, c) ==
    CASE m.calls[c].at = "make" ->
            [m EXCEPT !.slices[LocalSlice(c)] = [k \in 1..Len(m.args.val) |-> NoElement],
                      !.calls[c].at = "range"]
      [] m.calls[c].at = "range" /\ m.calls[c].i <= Len(m.args.val) ->
            deserializeRange(m, c, m.calls[c].i, decode(m.args.val[m.calls[c].i].Type))
      [] OTHER -> Return(m, c, ListOk(m.slices[LocalSlice(c)]))

\* the body of the loop of Builds for the call's element, once Build has returned
\* r: values = append(values, value)
BuildsRange(m, c, i, r) ==
    IF r.st = "panic" THEN Return(m, c, ListPanic(r.err))
    ELSE IF r.st = "err" THEN Return(m, c, ListErr(r.err))
    ELSE [m EXCEPT !.slices[LocalSlice(c)] = Append(@, r.val),
                   !.calls[c].i = i + 1]

\* one step of Builds: make([]any, 0, len(elements)), one turn, or return; Weld
\* goes through Builds and returns what json.Unmarshal leaves in the slice
BuildsCall(m, c) ==
    CASE m.calls[c].at = "make" ->
            [m EXCEPT !.slices[LocalSlice(c)] = <<>>, !.calls[c].at = "range"]
      [] m.calls[c].at = "range" /\ m.calls[c].i <= Len(m.schema) ->
            BuildsRange(m, c, m.calls[c].i, Build(m.builder, m.schema[m.calls[c].i]))
      [] m.calls[c].op = "Weld" ->
            Return(m, c, WeldUnmarshal(ListOk(m.slices[LocalSlice(c)]), m.payload))
      [] OTHER -> Return(m, c, ListOk(m.slices[LocalSlice(c)]))

\* Build, in one step
BuildCall(m, c) == Return(m, c, Build(m.builder, m.schema[m.calls[c].node]))

\* the memory a step leaves
Commit(m) ==
    /\ schema' = m.schema
    /\ args' = m.args
    /\ payload' = m.payload
    /\ builder' = m.builder
    /\ tables' = m.tables
    /\ calls' = m.calls
    /\ slices' = m.slices
    /\ UNCHANGED <<option, pc, elems, built, values, params, packed, rebuilt>>

Running(c, ops) == calls[c].op \in ops /\ calls[c].at # "done"

DoSerializeStep ==
    \E c \in DOMAIN calls : Running(c, {"Serialize"}) /\ Commit(serializeCall(Memory, c))

DoDeserializeStep ==
    \E c \in DOMAIN calls : Running(c, {"Deserialize"}) /\ Commit(deserializeCall(Memory, c))

DoBuildStep ==
    \E c \in DOMAIN calls : Running(c, {"Build"}) /\ Commit(BuildCall(Memory, c))

DoBuildsStep ==
    \E c \in DOMAIN calls : Running(c, {"Builds"}) /\ Commit(BuildsCall(Memory, c))

DoWeldStep ==
    \E c \in DOMAIN calls : Running(c, {"Weld"}) /\ Commit(BuildsCall(Memory, c))

\* the inputs the concurrent calls share
SharedNodes ==
    {Leaf(TypesString, NameA, 0), Leaf(TypesFloat, NameB, 0), ValidObject, FaultyObject}

SharedSchemas == {<<>>} \cup Singles(SharedNodes) \cup Pairs(SharedNodes)

SharedArguments ==
    {<<>>,
     <<Argument(NameA, ValidTuple)>>,
     <<Argument(NameA, Prim(StringTy)), Argument(NameB, Sequence(SliceTy, 1, <<Prim(BoolTy)>>))>>,
     <<Argument(NameA, Prim(BoolTy)), Argument(NameB, MissingElem)>>}

SharedPayloads(n) == {JsonNull, JsonArray([i \in 1..n |-> "match"])}

Calls(n) ==
    {Call(op, 0) : op \in {"Serialize", "Deserialize", "Builds", "Weld"}}
    \cup {Call("Build", k) : k \in 1..n}

ConcurrentInit ==
    /\ schema \in SharedSchemas
    /\ option \in Options
    /\ tables = [t \in {"DefaultReflectReplacers", "EtherReflectFns", "CallerFns"} |->
                    CASE t = "DefaultReflectReplacers" -> DefaultReflectReplacers
                      [] t = "EtherReflectFns" -> EtherReflectFns
                      [] t = "CallerFns" -> CallerFns]
    /\ builder = New(option)
    /\ pc = "calls"
    /\ args \in {ListOk(l) : l \in SharedArguments}
    /\ elems = NotCalled
    /\ built = [i |-> 0, res |-> NotCalled]
    /\ values = NotCalled
    /\ payload \in SharedPayloads(Len(schema))
    /\ params = NotCalled
    /\ packed = NotCalled
    /\ rebuilt = NotCalled
    /\ calls \in [CallIds -> Calls(Len(schema))]
    /\ slices = [c \in CallIds |-> <<>>]

ConcurrentNext ==
    \/ DoSerializeStep
    \/ DoDeserializeStep
    \/ DoBuildStep
    \/ DoBuildsStep
    \/ DoWeldStep

ConcurrentSpec == ConcurrentInit /\ [][ConcurrentNext]_vars

TypeOK ==
    /\ pc \in {"start", "serialized", "deserialized", "built", "builds", "welded", "encoded",
              "changed", "rebuilt", "calls"}
    /\ args.st \in {"none", "ok", "err", "panic"}

(***************************************************************************)
(* Properties                                                              *)
(***************************************************************************)
RECURSIVE OnlySupported(_)
RECURSIVE AsClaimedC1(_)
RECURSIVE NormalForm(_, _)

Supported == {TypesString, TypesInt, TypesUint, TypesBool, TypesBytes, TypesAddress,
              TypesArray, TypesObject}

DefaultBuilder == New(<<>>)
EthereumBuilder == NewEthereumBuilder

OnlySupported(e) ==
    /\ e.Type \in Supported
    /\ \A i \in 1..Len(e.Children) : OnlySupported(e.Children[i])

\* the tree C1 expects back: only an unset Int/Uint size changes, to 64
AsClaimedC1(e) ==
    [e EXCEPT !.Size = IF e.Type \in {TypesInt, TypesUint} /\ e.Size = 0 THEN 64 ELSE @,
              !.Children = [i \in 1..Len(e.Children) |-> AsClaimedC1(e.Children[i])]]

\* C1 as stated: for every schema of supported kinds that Serialize accepts,
\* Deserialize(Serialize(s)) succeeds and equals s node for node, except that an
\* unset Int/Uint size comes back as 64.
C1_RoundTripAsClaimed ==
    (pc = "deserialized" /\ \A i \in 1..Len(schema) : OnlySupported(schema[i]))
        => /\ elems.st = "ok"
           /\ elems.val = [i \in 1..Len(schema) |-> AsClaimedC1(schema[i])]

\* the tree that comes back: keepName tells a top-level node or an Object's child
\* (name kept) from the child of an Array (name emptied)
NormalForm(e, keepName) ==
    LET name == IF keepName THEN e.Name ELSE NoName
    IN  CASE e.Type \in {TypesInt, TypesUint} ->
                Element(name, e.Type, IF e.Size <= 0 THEN 64 ELSE e.Size, <<>>)
          [] e.Type = TypesBytes ->
                Element(name, e.Type, IF e.Size <= 0 THEN 0 ELSE e.Size, <<>>)
          [] e.Type = TypesArray ->
                Element(name, e.Type, IF e.Size <= 0 THEN 0 ELSE e.Size,
                        [i \in 1..Len(e.Children) |-> NormalForm(e.Children[i], FALSE)])
          [] e.Type = TypesObject ->
                Element(name, e.Type, 0,
                        [i \in 1..Len(e.Children) |-> NormalForm(e.Children[i], TRUE)])
          [] OTHER -> Element(name, e.Type, 0, <<>>)

\* C1 (amended): for every schema list that Serialize accepts, Deserialize of the
\* result succeeds and returns the schema node for node with top-level and Object
\* child names kept and the name of an Array's child emptied, an Int/Uint size <= 0
\* returned as 64, a Bytes or Array size <= 0 returned as 0, positive sizes of these
\* kinds unchanged, the size of String, Bool, Address and Object nodes returned as
\* 0, and the children of nodes that are neither Array nor Object dropped.
C1_RoundTripNormalForm ==
    pc = "deserialized"
        => /\ elems.st = "ok"
           /\ ~elems.nil
           /\ elems.val = [i \in 1..Len(schema) |-> NormalForm(schema[i], TRUE)]

\* an object -> array -> object schema (three levels) went through both directions
\* and came back changed only by the normalisation
C1_Witness ==
    /\ pc = "deserialized"
    /\ elems.st = "ok"
    /\ Len(schema) = 1
    /\ schema[1].Type = TypesObject
    /\ Len(schema[1].Children) = 1
    /\ schema[1].Children[1].Type = TypesArray
    /\ schema[1].Children[1].Children[1].Type = TypesObject
    /\ elems.val # schema

(***************************************************************************)
(* C2: the descriptor list mirrors the schema                              *)
(***************************************************************************)
\* the tags a leaf kind may be converted to
LeafTags(kind) ==
    CASE kind = TypesString -> {StringTy}
      [] kind = TypesBool -> {BoolTy}
      [] kind = TypesAddress -> {AddressTy}
      [] kind = TypesInt -> {IntTy}
      [] kind = TypesUint -> {UintTy}
      [] kind = TypesBytes -> {BytesTy, FixedBytesTy}
      [] OTHER -> {}

RECURSIVE Mirrors(_, _)
\* descriptor ty has the structure of node e: one element descriptor under a sequence
\* descriptor, one field per child, in child order, under a tuple descriptor
Mirrors(ty, e) ==
    CASE e.Type = TypesArray ->
            /\ ty.T \in {SliceTy, ArrayTy}
            /\ Len(e.Children) = 1
            /\ Len(ty.Elem) = 1
            /\ ty.TupleElems = <<>>
            /\ Mirrors(ty.Elem[1], e.Children[1])
      [] e.Type = TypesObject ->
            /\ ty.T = TupleTy
            /\ ty.Elem = <<>>
            /\ Len(ty.TupleElems) = Len(e.Children)
            /\ Len(ty.TupleRawNames) = Len(e.Children)
            /\ \A j \in 1..Len(e.Children) :
                  /\ ty.TupleRawNames[j] = e.Children[j].Name
                  /\ Mirrors(ty.TupleElems[j], e.Children[j])
      [] OTHER ->
            /\ ty.T \in LeafTags(e.Type)
            /\ ty.Elem = <<>>
            /\ ty.TupleElems = <<>>

\* C2: when Serialize(schema) succeeds the descriptor list has len(schema) entries,
\* entry i carries node i's name and is the conversion of node i, and at every depth
\* an Array descriptor holds one element descriptor, for the one child, and a tuple
\* descriptor one field per Object child in child order.
C2_DescriptorsMirrorSchema ==
    args.st = "ok"
        => /\ Len(args.val) = Len(schema)
           /\ \A i \in 1..Len(schema) :
                 /\ args.val[i].Name = schema[i].Name
                 /\ Mirrors(args.val[i].Type, schema[i])

\* a list of two nodes, the first an Object of two children, was converted
C2_Witness ==
    /\ pc = "serialized"
    /\ args.st = "ok"
    /\ Len(schema) = 2
    /\ schema[1] = ValidObject
    /\ schema[2].Type = TypesUint

(***************************************************************************)
(* C3, C4: Array arity and empty Object                                    *)
(***************************************************************************)
RECURSIVE Contains(_, _)
RECURSIVE Converts(_, _)

ArityFault(e) == e.Type = TypesArray /\ Len(e.Children) # 1
EmptyObjectFault(e) == e.Type = TypesObject /\ Len(e.Children) = 0
Faulty(e, fault) ==
    CASE fault = "arity" -> ArityFault(e)
      [] fault = "empty" -> EmptyObjectFault(e)
      [] OTHER -> e.Type = TypesObject /\ Len(e.Children) > 0

\* node e is, or holds at any depth, a node with the fault
Contains(e, fault) ==
    \/ Faulty(e, fault)
    \/ \E i \in 1..Len(e.Children) : Contains(e.Children[i], fault)

\* node e is a node with the fault, or holds one below Array and Object nodes only:
\* the children of a node of another kind are never converted
Converts(e, fault) ==
    \/ Faulty(e, fault)
    \/ /\ e.Type \in {TypesArray, TypesObject}
       /\ \E i \in 1..Len(e.Children) : Converts(e.Children[i], fault)

\* Build of the one node of the schema by one of the two named builders is done
BuiltTheNode ==
    /\ pc = "built"
    /\ Len(schema) = 1
    /\ builder \in {DefaultBuilder, EthereumBuilder}

ErrorAndNothing(r) == r.st = "err" /\ r.nil /\ r.err # NoErr

C5_UnsupportedAsClaimed ==
    (BuiltTheNode /\ schema[1].Type \notin Supported)
        => ErrorAndNothing(args) /\ ErrorAndNothing(built.res)

\* C5 (amended): for every node whose kind is outside the supported set Serialize
\* returns an error and no descriptor, and so does Build of the Ethereum Builder;
\* Build of the default Builder returns an error and no value for an unknown kind
\* string and for a Float node whose size is not 0, 32 or 64, and returns a pointer
\* to a float32 (size 32) or float64 (size 0 or 64) for the other Float nodes.
\* None of them faults.
C5_UnsupportedButDefaultFloat ==
    (BuiltTheNode /\ schema[1].Type \notin Supported)
        => /\ ErrorAndNothing(args)
           /\ builder = EthereumBuilder => ErrorAndNothing(built.res)
           /\ builder = DefaultBuilder =>
                 IF schema[1].Type = TypesFloat /\ schema[1].Size \in {0, 32, 64}
                 THEN built.res =
                        ValOk(PointerTo(GoFloat(IF schema[1].Size = 32 THEN 32 ELSE 64)))
                 ELSE ErrorAndNothing(built.res)
           /\ BuildBody(builder, schema[1]).st # "panic"

\* the default Builder built a value for a Float node that Serialize rejected
C5_Witness ==
    /\ BuiltTheNode
    /\ builder = DefaultBuilder
    /\ schema[1].Type = TypesFloat
    /\ built.res.st = "ok"
    /\ ErrorAndNothing(args)

(***************************************************************************)
(* C6: the list operations stop at the first failing node                  *)
(***************************************************************************)
FailingSerialize == {i \in 1..Len(schema) : encode(schema[i]).st # "ok"}
FailingBuild == {i \in 1..Len(schema) : Build(builder, schema[i]).st # "ok"}
First(S) == CHOOSE i \in S : \A j \in S : i <= j

\* C6: if the conversion of some top-level node fails, Serialize returns a nil
\* descriptor list and Builds a nil value list, each with the error of the first
\* failing node in list order, and no partial list.
C6_FailFastAsClaimed ==
    /\ (args.st # "none" /\ FailingSerialize # {})
          => /\ ErrorAndNothing(args)
             /\ args.val = <<>>
             /\ args.err = encode(schema[First(FailingSerialize)]).err
    /\ (values.st # "none" /\ FailingBuild # {})
          => /\ ErrorAndNothing(values)
             /\ values.val = <<>>
             /\ values.err = Build(builder, schema[First(FailingBuild)]).err

\* the half of C6 about Builds, which holds: Builds returns a nil list and the
\* error of the first node whose Build fails
C6_BuildsFailFast ==
    (values.st # "none" /\ FailingBuild # {})
        => /\ ErrorAndNothing(values)
           /\ values.val = <<>>
           /\ values.err = Build(builder, schema[First(FailingBuild)]).err

(***************************************************************************)
(* C7: Build returns a value or an error, and no fault leaves it           *)
(***************************************************************************)
\* C7: for every Build call, with any node and any builder configuration, Build
\* returns either a value with no error or no value with an error; a fault raised
\* during type construction never escapes Build.
C7_BuildValueOrError ==
    pc = "built"
        => \/ /\ built.res.st = "ok"
              /\ ~built.res.nil
              /\ built.res.val # NoValue
              /\ built.res.err = NoErr
           \/ /\ built.res.st = "err"
              /\ built.res.nil
              /\ built.res.val = NoValue
              /\ built.res.err # NoErr

\* the type construction faulted inside Build, and Build returned the error
C7_Witness ==
    /\ pc = "built"
    /\ BuildBody(builder, schema[built.i]).st = "panic"
    /\ built.res.st = "err"

(***************************************************************************)
(* C8: field names and order of an Object                                  *)
(***************************************************************************)
RECURSIVE DescriptorFields(_, _)
RECURSIVE ValueFields(_, _)

\* the names a struct tag carries, whatever its keys
TagNames(tag) == {tag[i].value : i \in 1..Len(tag)}

\* at every Object of node e, tuple descriptor ty has one raw name and one field of
\* its record type per child, in child order, named and tagged with the child's name
DescriptorFields(ty, e) ==
    CASE e.Type = TypesObject ->
            /\ Len(ty.TupleRawNames) = Len(e.Children)
            /\ Len(ty.TupleElems) = Len(e.Children)
            /\ ty.TupleType.k = "struct"
            /\ Len(ty.TupleType.fields) = Len(e.Children)
            /\ \A j \in 1..Len(e.Children) :
                  /\ ty.TupleRawNames[j] = e.Children[j].Name
                  /\ TagNames(ty.TupleType.fields[j].Tag) = {e.Children[j].Name}
                  /\ DescriptorFields(ty.TupleElems[j], e.Children[j])
      [] e.Type = TypesArray -> DescriptorFields(ty.Elem[1], e.Children[1])
      [] OTHER -> TRUE

\* at every Object of node e, record type t has one field per child, in child
\* order, tagged with the child's name
ValueFields(t, e) ==
    CASE e.Type = TypesObject ->
            /\ t.k = "struct"
            /\ Len(t.fields) = Len(e.Children)
            /\ \A j \in 1..Len(e.Children) :
                  /\ TagNames(t.fields[j].Tag) = {e.Children[j].Name}
                  /\ ValueFields(t.fields[j].Type, e.Children[j])
      [] e.Type = TypesArray -> ValueFields(t.elem, e.Children[1])
      [] OTHER -> TRUE

\* C8: for every Object node that Serialize or Build accepts, the tuple descriptor
\* and the record value type have exactly one field per child, in child order, and
\* the i-th field's raw name / tag name is the i-th child's name.
C8_ObjectFieldsFollowChildren ==
    /\ args.st = "ok"
          => \A i \in 1..Len(schema) : DescriptorFields(args.val[i].Type, schema[i])
    /\ (pc = "built" /\ built.res.st = "ok")
          => ValueFields(built.res.val.elem, schema[built.i])

\* an Object of two children, the first itself an Object of two children, was
\* accepted by Serialize and by Build
C8_Witness ==
    /\ pc = "built"
    /\ args.st = "ok"
    /\ built.res.st = "ok"
    /\ schema[built.i].Type = TypesObject
    /\ Len(schema[built.i].Children) = 2
    /\ schema[built.i].Children[1] = ValidObject

(***************************************************************************)
(* C9: the type Build synthesizes and the type the descriptor expects      *)
(***************************************************************************)
RECURSIVE Shape(_)

\* a type with the names of named types taken off, at every depth
Shape(t) ==
    CASE t.k = "named" -> Shape(t.under)
      [] t.k \in {"slice", "ptr"} -> [k |-> t.k, elem |-> Shape(t.elem)]
      [] t.k = "array" -> [k |-> t.k, len |-> t.len, elem |-> Shape(t.elem)]
      [] t.k = "struct" ->
            [k |-> t.k,
             fields |-> [j \in 1..Len(t.fields) |->
                            [t.fields[j] EXCEPT !.Type = Shape(@)]]]
      [] OTHER -> t

\* C9: for every node accepted by both Serialize and the Ethereum builder's Build,
\* the value type Build synthesizes is, at every depth, the value type the
\* descriptor of the same node expects.
C9_BuildTypeIsDescriptorType ==
    (pc = "built" /\ builder = EthereumBuilder /\ args.st = "ok" /\ built.res.st = "ok")
        => Shape(built.res.val.elem) = Shape(GetType(args.val[built.i].Type))

(***************************************************************************)
(* C10: the documented call sequence                                       *)
(***************************************************************************)
\* a payload with one item per top-level node, each fitting its node
MatchingPayload == JsonArray([i \in 1..Len(schema) |-> "match"])

\* C10: in the documented sequence Serialize, Weld, EncodeWithFunctionSignature,
\* Pack receives one value per top-level schema node, the i-th being Weld's i-th
\* result, so the sequence produces call data for a valid schema and a matching
\* payload.
C10_DocumentedSequenceEncodes ==
    (pc = "encoded" /\ payload = MatchingPayload)
        => /\ packed.st = "ok"
           /\ packed.val.data = params.val

(***************************************************************************)
(* C11: the values Weld returns                                            *)
(***************************************************************************)
\* C11: when Weld(schema, data) succeeds the result has exactly len(schema) values
\* and value i is an instance of the type synthesized from schema node i, for every
\* JSON payload, top-level arrays shorter or longer than the schema included; when
\* Builds or the JSON decoding fails, Weld returns a nil result with the error.
C11_WeldOneValuePerNode ==
    pc = "welded"
        => IF params.st = "ok"
           THEN /\ ~params.nil
                /\ Len(params.val) = Len(schema)
                /\ \A i \in 1..Len(schema) :
                      params.val[i] = Build(builder, schema[i]).val
           ELSE ErrorAndNothing(params)

\* the half of C11 about failures, and what holds of a success: the result has one
\* value per item of the payload, an instance of node i's type at a position i the
\* schema has and a value of no synthesized type beyond it
C11_WeldFollowsPayload ==
    pc = "welded"
        => IF params.st = "ok"
           THEN /\ payload.kind \in {"array", "null"}
                /\ Len(params.val) = Len(payload.items)
                /\ \A i \in 1..Len(params.val) :
                      params.val[i] = IF i <= Len(schema)
                                      THEN Build(builder, schema[i]).val
                                      ELSE GenericValue
           ELSE ErrorAndNothing(params)

(***************************************************************************)
(* C12: what an error says about the node it comes from                    *)
(***************************************************************************)
\* the schema with its two nodes in the other order
Swapped == <<schema[2], schema[1]>>

\* the same node under another name
Renamed(e) == [e EXCEPT !.Name = IF e.Name = NameA THEN NameB ELSE NameA]

\* C12: when Serialize or Build fails, the error carries the error kind with the
\* offending node's position, kind and name, so two schemas failing with the same
\* error kind at different nodes yield distinguishable errors: here a list and the
\* list in the other order (the offending node at another position), and a node and
\* the same node under another name.
C12_ErrorsIdentifyNode ==
    /\ (/\ pc = "serialized"
        /\ Len(schema) = 2
        /\ args.st = "err"
        /\ encode(schema[1]).st = "err"
        /\ encode(schema[2]).st = "ok")
          => Serialize(Swapped).err # args.err
    /\ (pc = "built" /\ built.res.st = "err" /\ BuildBody(builder, schema[built.i]).st = "err")
          => Build(builder, Renamed(schema[built.i])).err # built.res.err

(***************************************************************************)
(* C13, C14: integer widths and byte sequences in descriptors              *)
(***************************************************************************)
RECURSIVE WidthsFollow(_, _)
RECURSIVE BytesAsClaimed(_, _)
RECURSIVE BytesFollow(_, _)

\* at every Int/Uint node of e that is converted, descriptor ty is signed for Int and
\* unsigned for Uint, of the node's size if that is positive and of 64 otherwise
WidthsFollow(ty, e) ==
    CASE e.Type \in {TypesInt, TypesUint} ->
            /\ ty.T = (IF e.Type = TypesInt THEN IntTy ELSE UintTy)
            /\ ty.Size = (IF e.Size > 0 THEN e.Size ELSE 64)
      [] e.Type = TypesArray -> WidthsFollow(ty.Elem[1], e.Children[1])
      [] e.Type = TypesObject ->
            \A j \in 1..Len(e.Children) : WidthsFollow(ty.TupleElems[j], e.Children[j])
      [] OTHER -> TRUE

\* C13: Serialize maps an Int node to a signed and a Uint node to an unsigned integer
\* descriptor whose width is the node's size when size > 0 and 64 otherwise;
\* non-standard widths are copied verbatim.
C13_IntegerWidths ==
    args.st = "ok"
        => \A i \in 1..Len(schema) : WidthsFollow(args.val[i].Type, schema[i])

\* a Uint node of a width that is no native width was converted
C13_Witness ==
    /\ pc = "serialized"
    /\ args.st = "ok"
    /\ Len(schema) = 1
    /\ schema[1].Type = TypesUint
    /\ schema[1].Size > 0
    /\ schema[1].Size \notin NativeWidths
    /\ args.val[1].Type.Size = schema[1].Size

\* at every Bytes node of e that is converted: dynamic exactly for size 0, else
\* fixed-length of that size
BytesAsClaimed(ty, e) ==
    CASE e.Type = TypesBytes ->
            IF e.Size = 0 THEN ty.T = BytesTy
            ELSE ty.T = FixedBytesTy /\ ty.Size = e.Size
      [] e.Type = TypesArray -> BytesAsClaimed(ty.Elem[1], e.Children[1])
      [] e.Type = TypesObject ->
            \A j \in 1..Len(e.Children) : BytesAsClaimed(ty.TupleElems[j], e.Children[j])
      [] OTHER -> TRUE

\* at every Bytes node of e that is converted: dynamic for a size <= 0, fixed-length
\* of that size for a size > 0
BytesFollow(ty, e) ==
    CASE e.Type = TypesBytes ->
            IF e.Size <= 0 THEN ty.T = BytesTy /\ ty.Size = 0
            ELSE ty.T = FixedBytesTy /\ ty.Size = e.Size
      [] e.Type = TypesArray -> BytesFollow(ty.Elem[1], e.Children[1])
      [] e.Type = TypesObject ->
            \A j \in 1..Len(e.Children) : BytesFollow(ty.TupleElems[j], e.Children[j])
      [] OTHER -> TRUE

\* C14 as stated: Serialize maps a Bytes node to a dynamic byte-sequence descriptor
\* exactly when its size is 0, and for every other size to a fixed-length descriptor
\* whose length is that size.
C14_BytesAsClaimed ==
    args.st = "ok"
        => \A i \in 1..Len(schema) : BytesAsClaimed(args.val[i].Type, schema[i])

\* C14 (amended): Serialize maps a Bytes node to a dynamic byte-sequence descriptor
\* exactly when its size is 0 or negative, and for every size > 0 to a fixed-length
\* byte-sequence descriptor whose length is that size.
C14_BytesDynamicUpToZero ==
    args.st = "ok"
        => \A i \in 1..Len(schema) : BytesFollow(args.val[i].Type, schema[i])

\* a Bytes node of negative size was converted, to a dynamic descriptor
C14_Witness ==
    /\ pc = "serialized"
    /\ args.st = "ok"
    /\ Len(schema) = 1
    /\ schema[1].Type = TypesBytes
    /\ schema[1].Size < 0
    /\ args.val[1].Type.T = BytesTy

(***************************************************************************)
(* C15: the integer representation Build selects                           *)
(***************************************************************************)
RECURSIVE IntegersFollow(_, _)

\* the representation C15 names for an Int/Uint node
IntegerOf(e) ==
    IF e.Size \in {8, 16, 32, 64}
    THEN (IF e.Type = TypesInt THEN GoInt(e.Size) ELSE GoUint(e.Size))
    ELSE IF e.Size = 0
    THEN (IF e.Type = TypesInt THEN GoInt(64) ELSE GoUint(64))
    ELSE GoBigInt

\* at every Int/Uint node of e, type t holds the representation C15 names
IntegersFollow(t, e) ==
    CASE e.Type \in {TypesInt, TypesUint} -> t = IntegerOf(e)
      [] e.Type = TypesArray -> IntegersFollow(t.elem, e.Children[1])
      [] e.Type = TypesObject ->
            \A j \in 1..Len(e.Children) : IntegersFollow(t.fields[j].Type, e.Children[j])
      [] OTHER -> TRUE

\* C15: Build selects for an Int/Uint node the native signed/unsigned representation
\* of the matching width when size is 8, 16, 32 or 64, the 64-bit native one when
\* size is 0, and an arbitrary-precision integer for every other size; every Build
\* of an Int/Uint node succeeds.
C15_BuildIntegerRepresentation ==
    pc = "built"
        => /\ schema[built.i].Type \in {TypesInt, TypesUint}
                => built.res = ValOk(PointerTo(IntegerOf(schema[built.i])))
           /\ built.res.st = "ok"
                => IntegersFollow(built.res.val.elem, schema[built.i])

\* an Int node of a size that is neither 0 nor a native width was built
C15_Witness ==
    /\ pc = "built"
    /\ schema[built.i].Type = TypesInt
    /\ schema[built.i].Size \notin NativeWidths \cup {0}
    /\ built.res.st = "ok"
    /\ built.res.val.elem = GoBigInt

(***************************************************************************)
(* C16: which constructor Build uses for a node                            *)
(***************************************************************************)
RECURSIVE BuiltNodes(_)

\* the node and the nodes below it that Build comes to: the children of Array and
\* Object nodes
BuiltNodes(e) ==
    {e} \cup (IF e.Type \in {TypesArray, TypesObject}
              THEN UNION {BuiltNodes(e.Children[i]) : i \in 1..Len(e.Children)}
              ELSE {})

\* the default constructor of a kind that has one
DefaultFnOf(kind) ==
    CASE kind = TypesString -> "buildString"
      [] kind = TypesInt -> "buildInt"
      [] kind = TypesUint -> "buildUint"
      [] kind = TypesFloat -> "buildFloat"
      [] kind = TypesBool -> "buildBool"
      [] kind = TypesBytes -> "buildBytes"
      [] kind = TypesAddress -> "buildAddress"
      [] kind = TypesArray -> "buildArray"
      [] kind = TypesObject -> "buildObject"

\* the constructor C16 names for node n under builder b: the override if the table
\* has an entry for the kind, else the default, else none
ConstructedAsClaimed(b, n) ==
    IF n.Type \in DOMAIN tables[b.ReflectReplacers]
    THEN buildType(b, n) = CallReflectFn(b, tables[b.ReflectReplacers][n.Type], n)
    ELSE IF n.Type \in Supported \cup {TypesFloat}
    THEN buildType(b, n) = CallReflectFn(b, DefaultFnOf(n.Type), n)
    ELSE buildType(b, n).st = "err"

\* C16: for every node, at the top level and below Array and Object nodes alike, Build
\* uses the override constructor's result or error if the Builder's table has an
\* entry for the node's kind and never the default, the default constructor if it
\* has none, and yields an error for a kind with neither.
C16_OverrideBeforeDefault ==
    pc = "built"
        => /\ \A n \in BuiltNodes(schema[built.i]) : ConstructedAsClaimed(builder, n)
           /\ built.res = Build(builder, schema[built.i])

\* what holds: C16 for every node of a kind buildType has a case for
C16_OverrideBeforeDefaultForKnownKinds ==
    pc = "built"
        => \A n \in BuiltNodes(schema[built.i]) :
              n.Type \in Supported \cup {TypesFloat} => ConstructedAsClaimed(builder, n)

(***************************************************************************)
(* Deserialize on descriptors the caller holds                             *)
(***************************************************************************)
RECURSIVE Parts(_)
\* the descriptors of the tree below d: a sequence's element type, a tuple's
\* field types that are not nil, and theirs
Parts(d) ==
    {d}
    \cup (IF d.T \in {SliceTy, ArrayTy}
          THEN UNION {Parts(d.Elem[i]) : i \in 1..Len(d.Elem)} ELSE {})
    \cup (IF d.T = TupleTy
          THEN UNION {Parts(f) : f \in {d.TupleElems[i] : i \in 1..Len(d.TupleElems)}
                                        \ {NilType}}
          ELSE {})

ArgumentParts(as) == UNION {Parts(as[i].Type) : i \in 1..Len(as)}

\* a tuple descriptor one of whose field types is a nil pointer
HasNilField(d) ==
    d.T = TupleTy /\ \E i \in 1..Len(d.TupleElems) : d.TupleElems[i] = NilType

ErrorAndNoSchema == elems.st = "err" /\ elems.nil /\ elems.val = <<>>

\* no schema: an error, or the fault of a nil field type
NoSchema ==
    /\ elems.st \in {"err", "panic"} /\ elems.nil /\ elems.val = <<>>
    /\ elems.st = "panic" => \E d \in ArgumentParts(args.val) : HasNilField(d)

AbsentElem(d) == d.T \in {SliceTy, ArrayTy} /\ d.Elem = <<>>

\* C17: Deserialize returns an error, and no schema, for every descriptor list that
\* contains at any depth a sequence descriptor, fixed-length or dynamic, whose
\* element type is absent.
C17_AbsentElementIsAnError ==
    (pc = "deserialized" /\ \E d \in ArgumentParts(args.val) : AbsentElem(d))
        => ErrorAndNoSchema

\* what holds: such a list yields no schema, by an error or by the fault of a nil
\* field type
C17_AbsentElementYieldsNoSchema ==
    (pc = "deserialized" /\ \E d \in ArgumentParts(args.val) : AbsentElem(d))
        => NoSchema

RECURSIVE SequencesFollow(_, _)
\* element e is what C18 says of descriptor d, at every depth
SequencesFollow(d, e) ==
    CASE d.T \in {SliceTy, ArrayTy} ->
            /\ e.Type = TypesArray
            /\ e.Size = (IF d.T = ArrayTy THEN d.Size ELSE 0)
            /\ Len(e.Children) = 1
            /\ e.Children[1] = decode(d.Elem[1]).el
            /\ SequencesFollow(d.Elem[1], e.Children[1])
      [] d.T = TupleTy ->
            /\ Len(e.Children) = Len(d.TupleElems)
            /\ \A i \in 1..Len(d.TupleElems) :
                  SequencesFollow(d.TupleElems[i], e.Children[i])
      [] OTHER -> TRUE

\* C18: Deserialize maps a fixed-length sequence descriptor of length n to an Array
\* node of size n, and a dynamic sequence descriptor to an Array node of size 0
\* whatever its size field holds, both with exactly one child, the conversion of the
\* element descriptor.
C18_SequencesBecomeArrays ==
    (pc = "deserialized" /\ elems.st = "ok")
        => /\ Len(elems.val) = Len(args.val)
           /\ \A i \in 1..Len(args.val) : SequencesFollow(args.val[i].Type, elems.val[i])

\* a slice with a size field of its own and a fixed-length sequence are converted,
\* the second below the top level
C18_Witness ==
    /\ pc = "deserialized" /\ elems.st = "ok"
    /\ Len(args.val) = 1
    /\ args.val[1].Type.T = SliceTy /\ args.val[1].Type.Size = 1
    /\ args.val[1].Type.Elem[1].T = ArrayTy /\ args.val[1].Type.Elem[1].Size = 1
    /\ elems.val[1].Size = 0
    /\ elems.val[1].Children[1].Size = 1

Inconsistent(d) == d.T = TupleTy /\ Len(d.TupleElems) # Len(d.TupleRawNames)

RECURSIVE TuplesFollow(_, _)
\* element e is what C19 says of descriptor d, at every depth
TuplesFollow(d, e) ==
    CASE d.T = TupleTy ->
            /\ e.Type = TypesObject
            /\ Len(e.Children) = Len(d.TupleElems)
            /\ \A i \in 1..Len(d.TupleElems) :
                  /\ e.Children[i] =
                        [decode(d.TupleElems[i]).el EXCEPT !.Name = d.TupleRawNames[i]]
                  /\ TuplesFollow(d.TupleElems[i], e.Children[i])
      [] d.T \in {SliceTy, ArrayTy} ->
            /\ Len(e.Children) = 1
            /\ TuplesFollow(d.Elem[1], e.Children[1])
      [] OTHER -> TRUE

FieldsFollow ==
    elems.st = "ok"
        => /\ Len(elems.val) = Len(args.val)
           /\ \A i \in 1..Len(args.val) : TuplesFollow(args.val[i].Type, elems.val[i])

\* C19: Deserialize returns an error, and no schema, for every descriptor list that
\* contains at any depth a tuple descriptor whose field-name list and field-type
\* list differ in length; when the lengths agree, child i of the Object node is the
\* conversion of field type i, named with field name i.
C19_InconsistentTupleIsAnError ==
    pc = "deserialized"
        => /\ (\E d \in ArgumentParts(args.val) : Inconsistent(d)) => ErrorAndNoSchema
           /\ FieldsFollow

\* what holds: such a list yields no schema, by an error or by the fault of a nil
\* field type, and the fields of a converted tuple are as C19 says
C19_InconsistentTupleYieldsNoSchema ==
    pc = "deserialized"
        => /\ (\E d \in ArgumentParts(args.val) : Inconsistent(d)) => NoSchema
           /\ FieldsFollow

KnownTags ==
    {StringTy, BytesTy, FixedBytesTy, AddressTy, IntTy, UintTy, BoolTy, SliceTy,
     ArrayTy, TupleTy}

\* C20: Deserialize returns an error, and no schema, for every descriptor list that
\* contains at any depth a descriptor whose tag is outside string, bytes, fixed
\* bytes, address, int, uint, bool, slice, array and tuple; the failure is never
\* turned into a partial schema.
C20_UnknownTagIsAnError ==
    (pc = "deserialized" /\ \E d \in ArgumentParts(args.val) : d.T \notin KnownTags)
        => ErrorAndNoSchema

\* what holds: such a list yields no schema, by an error or by the fault of a nil
\* field type
C20_UnknownTagYieldsNoSchema ==
    (pc = "deserialized" /\ \E d \in ArgumentParts(args.val) : d.T \notin KnownTags)
        => NoSchema

(***************************************************************************)
(* C23: the Builder that New makes without options                         *)
(***************************************************************************)
\* kinds that the constructors of package builder build for size 0
DefaultBuildable == {TypesString, TypesInt, TypesUint, TypesBool, TypesBytes, TypesFloat}

\* an Object node of one or more leaf children of buildable kinds, whose names
\* give distinct exported field names
WellFormedObject(e) ==
    /\ e.Type = TypesObject
    /\ Len(e.Children) > 0
    /\ \A i \in 1..Len(e.Children) :
          /\ e.Children[i].Type \in DefaultBuildable
          /\ e.Children[i].Size = 0
          /\ e.Children[i].Name # <<>>
    /\ StructOfCheck([i \in 1..Len(e.Children) |->
                         StructField(ToCamelCase(e.Children[i].Name), GoString, <<>>)],
                     1) = NoErr

\* options without a struct-tag function
WithoutStructTag == {<<>>, <<ZeroOption>>, <<Option("CallerFns", "nil")>>}

\* C23: a Builder made by New with no options, or with an Option whose
\* StructTagReplacer is nil, tags object fields with DefaultStructTag, and one whose
\* ReflectReplacers is nil uses DefaultReflectReplacers; so its Build of a
\* well-formed Object node succeeds.
C23_DefaultBuilderBuildsObjects ==
    /\ \A o \in WithoutStructTag : New(o).StructTagReplacer = "DefaultStructTag"
    /\ (pc = "built" /\ option = <<>> /\ WellFormedObject(schema[built.i]))
          => /\ builder.ReflectReplacers = "DefaultReflectReplacers"
             /\ built.res.st = "ok"

\* what holds: New falls back to DefaultReflectReplacers, leaves the Builder's
\* struct-tag function nil, and Build of a well-formed Object node returns the
\* error of the call of a nil func
C23_DefaultBuilderHasNoStructTag ==
    /\ \A o \in WithoutStructTag : New(o).StructTagReplacer = "nil"
    /\ New(<<>>).ReflectReplacers = "DefaultReflectReplacers"
    /\ (pc = "built" /\ option = <<>> /\ WellFormedObject(schema[built.i]))
          => /\ builder.ReflectReplacers = "DefaultReflectReplacers"
             /\ built.res = ValErr(NilDereference)

(***************************************************************************)
(* C24: the shape of the schemas Deserialize returns                       *)
(***************************************************************************)
RECURSIVE SchemaInvariants(_)
\* every Array node of the tree e has exactly one child, every Object node one or more
SchemaInvariants(e) ==
    /\ e.Type = TypesArray => Len(e.Children) = 1
    /\ e.Type = TypesObject => Len(e.Children) > 0
    /\ \A i \in 1..Len(e.Children) : SchemaInvariants(e.Children[i])

RECURSIVE ArraysHaveOneChild(_)
ArraysHaveOneChild(e) ==
    /\ e.Type = TypesArray => Len(e.Children) = 1
    /\ \A i \in 1..Len(e.Children) : ArraysHaveOneChild(e.Children[i])

\* C24: every schema a successful Deserialize returns has, at every depth, exactly
\* one child in each Array node and at least one child in each Object node: a tuple
\* descriptor without fields does not become an Object node without children.
C24_DeserializedSchemaInvariants ==
    (pc = "deserialized" /\ elems.st = "ok")
        => \A i \in 1..Len(elems.val) : SchemaInvariants(elems.val[i])

\* what holds: every Array node has exactly one child, and an Object node has no
\* children exactly where the list holds a tuple descriptor without fields
C24_DeserializedArraysHaveOneChild ==
    (pc = "deserialized" /\ elems.st = "ok")
        => /\ \A i \in 1..Len(elems.val) : ArraysHaveOneChild(elems.val[i])
           /\ (\A i \in 1..Len(elems.val) : SchemaInvariants(elems.val[i]))
                 <=> EmptyTuple \notin ArgumentParts(args.val)

(***************************************************************************)
(* C25: Serialize and the names of an Object's children                    *)
(***************************************************************************)
\* the field names reflect.StructOf is given for the children of Object node e
FieldNames(e) ==
    [i \in 1..Len(e.Children) |->
        StructField(ToCamelCase(e.Children[i].Name), GoString, <<>>)]

\* reflect.StructOf rejects the field names of Object node e
NameFault(e) ==
    /\ e.Type = TypesObject
    /\ Len(e.Children) > 0
    /\ StructOfCheck(FieldNames(e), 1) # NoErr

\* C25: Serialize returns a descriptor list or an error for every input schema and
\* never raises a runtime fault, also for Object nodes whose children have an empty
\* name, a name that is no valid field identifier, or the same name twice.
C25_SerializeNeverFaults ==
    args.st # "none" => args.st \in {"ok", "err"}

\* what holds: Serialize faults only on a schema with an Object node whose
\* children's names reflect.StructOf rejects, and then returns nothing
C25_SerializeFaultsOnNamesOnly ==
    args.st = "panic"
        => /\ args.nil /\ args.val = <<>>
           /\ \E i \in 1..Len(schema) : \E n \in BuiltNodes(schema[i]) : NameFault(n)

(***************************************************************************)
(* C26: the error of the first invalid node in pre-order                   *)
(***************************************************************************)
\* the first error of a list of errors, NoErr if there is none
FirstError(errs) ==
    IF \E i \in 1..Len(errs) : errs[i] # NoErr
    THEN errs[CHOOSE i \in 1..Len(errs) :
                 errs[i] # NoErr /\ \A j \in 1..(i - 1) : errs[j] = NoErr]
    ELSE NoErr

\* the error of node e's own kind, arity or emptiness check in Serialize
OwnErrorOfSerialize(e) ==
    CASE e.Type \notin Supported -> <<"parser does not support", e.Type>>
      [] ArityFault(e) -> <<"array must have one child">>
      [] EmptyObjectFault(e) -> <<"object must have at least one child">>
      [] OTHER -> NoErr

RECURSIVE PreOrderOfSerialize(_, _)
\* the error of the first invalid node of the tree e in pre-order: the node's own
\* check, then its children from left to right, a child's name being looked at
\* after the child's own tree when names is TRUE, and after all children else
PreOrderOfSerialize(e, names) ==
    IF OwnErrorOfSerialize(e) # NoErr THEN OwnErrorOfSerialize(e)
    ELSE IF e.Type = TypesArray THEN PreOrderOfSerialize(e.Children[1], names)
    ELSE IF e.Type = TypesObject
    THEN FirstError(
            [i \in 1..Len(e.Children) |->
                IF PreOrderOfSerialize(e.Children[i], names) # NoErr
                THEN PreOrderOfSerialize(e.Children[i], names)
                ELSE IF names THEN StructFieldFault(FieldNames(e), i) ELSE NoErr]
            \o <<StructOfCheck(FieldNames(e), 1)>>)
    ELSE NoErr

\* the error of node e's own check in Build: arity, emptiness, and for the other
\* kinds what the constructor of the kind returns
OwnErrorOfBuild(b, e) ==
    IF e.Type \in {TypesArray, TypesObject} /\ e.Type \notin DOMAIN tables[b.ReflectReplacers]
    THEN (CASE ArityFault(e) -> <<"array must have one child">>
            [] EmptyObjectFault(e) -> <<"object must have at least one child">>
            [] OTHER -> NoErr)
    ELSE buildType(b, e).err

RECURSIVE PreOrderOfBuild(_, _, _)
PreOrderOfBuild(b, e, names) ==
    IF OwnErrorOfBuild(b, e) # NoErr THEN OwnErrorOfBuild(b, e)
    ELSE IF e.Type = TypesArray THEN PreOrderOfBuild(b, e.Children[1], names)
    ELSE IF e.Type = TypesObject
    THEN FirstError(
            [i \in 1..Len(e.Children) |->
                IF PreOrderOfBuild(b, e.Children[i], names) # NoErr
                THEN PreOrderOfBuild(b, e.Children[i], names)
                ELSE IF CallStructTagFn(b.StructTagReplacer, e.Children[i].Name).st # "ok"
                THEN CallStructTagFn(b.StructTagReplacer, e.Children[i].Name).err
                ELSE IF names THEN StructFieldFault(FieldNames(e), i) ELSE NoErr]
            \o <<StructOfCheck(FieldNames(e), 1)>>)
    ELSE NoErr

PreOrder(names) ==
    /\ args.st # "none"
          => args.err = FirstError([i \in 1..Len(schema) |->
                                       PreOrderOfSerialize(schema[i], names)])
    /\ pc = "built"
          => built.res.err = PreOrderOfBuild(builder, schema[built.i], names)

\* C26: of several invalid nodes, Serialize and Build report the error of the first
\* in pre-order: a node's own check comes before the conversion of its children,
\* children and top-level nodes are visited from left to right, and an invalid node
\* further on never changes the error.
C26_FirstInvalidNodeInPreOrder == PreOrder(TRUE)

\* what holds: the kind, arity and emptiness checks are made in pre-order, but the
\* names of an Object's children are looked at after all its children are converted
C26_NamesAfterAllChildren == PreOrder(FALSE)

(***************************************************************************)
(* C27: Serialize and the Ethereum builder's Build accept the same nodes   *)
(***************************************************************************)
\* Serialize and Build have both run on the one node of the schema, Build with the
\* Ethereum builder
BothRan ==
    /\ pc = "built"
    /\ Len(schema) = 1
    /\ builder = EthereumBuilder

\* C27: for every node, of any kind, any size and any children, Serialize returns
\* an error if and only if Build of the Ethereum builder returns an error.
C27_SameSchemasAccepted ==
    BothRan => (args.st = "err" <=> built.res.st = "err")

\* a Bytes node of negative size on the converted path
NegativeBytes(e) ==
    \E n \in BuiltNodes(e) : n.Type = TypesBytes /\ n.Size < 0

\* what holds: the two agree on every node without a Bytes node of negative size
\* and without an Object node whose children's names reflect.StructOf rejects
C27_SameSchemasButBytesAndNames ==
    (BothRan /\ ~NegativeBytes(schema[1])
             /\ \A n \in BuiltNodes(schema[1]) : ~NameFault(n))
        => /\ args.st \in {"ok", "err"}
           /\ args.st = "err" <=> built.res.st = "err"

(***************************************************************************)
(* C28: field names of the children of one Object node                     *)
(***************************************************************************)
\* the Object nodes that Serialize and Build convert in the schema
ObjectNodes ==
    {n \in UNION {BuiltNodes(schema[i]) : i \in 1..Len(schema)} : n.Type = TypesObject}

\* ToCamelCase gives children of e with distinct names distinct field names
InjectiveOn(e) ==
    \A i, j \in 1..Len(e.Children) :
        e.Children[i].Name # e.Children[j].Name
            => ToCamelCase(e.Children[i].Name) # ToCamelCase(e.Children[j].Name)

\* C28: within one Object node, children with distinct names get distinct field
\* names in the type Serialize and Build generate: splitting on "_", upper-casing
\* the first letter of each part and joining is injective on the names of one
\* object, so distinct names never collide.
C28_FieldNamesInjective ==
    args.st # "none" => \A e \in ObjectNodes : InjectiveOn(e)

\* what holds: where the names collide no type is generated, Serialize faults and
\* Build returns an error
C28_CollidingNamesGiveNoType ==
    \A i \in 1..Len(schema) :
        (schema[i].Type = TypesObject /\ ~InjectiveOn(schema[i]))
            => /\ args.st \notin {"ok"}
               /\ pc = "built" /\ built.i = i => built.res.st = "err"

(***************************************************************************)
(* C29: one round trip reaches a normal form                               *)
(***************************************************************************)
\* C29: for every schema s that Serialize accepts, Serialize(Deserialize(
\* Serialize(s))) succeeds and equals Serialize(s), and a further round trip
\* leaves the schema that came back unchanged.
C29_RoundTripReachesNormalForm ==
    pc = "deserialized"
        => /\ elems.st = "ok"
           /\ Serialize(elems.val) = args
           /\ Deserialize(Serialize(elems.val).val) = elems

\* a schema that is not in normal form went through Serialize and Deserialize: an
\* Object with a size of its own and one integer child of width 8
C29_Witness ==
    /\ pc = "deserialized"
    /\ elems.st = "ok"
    /\ Len(schema) = 1
    /\ schema[1].Type = TypesObject
    /\ Len(schema[1].Children) = 1
    /\ schema[1].Children[1].Type \in {TypesInt, TypesUint}
    /\ schema[1].Children[1].Size = 8
    /\ schema[1].Size # 0
    /\ elems.val # schema
    /\ Serialize(elems.val) = args

(***************************************************************************)
(* C30: a Builder's dispatch after New has returned                        *)
(***************************************************************************)
\* the tables as they are when New returns
TablesAtNew ==
    [t \in {"DefaultReflectReplacers", "EtherReflectFns", "CallerFns"} |->
        CASE t = "DefaultReflectReplacers" -> DefaultReflectReplacers
          [] t = "EtherReflectFns" -> EtherReflectFns
          [] t = "CallerFns" -> CallerFns]

\* C30: after New has returned, a later change to the map passed in the Option, to
\* the package-level default or Ethereum tables, or made through another Builder,
\* does not change what this Builder's Build returns for any node.
C30_DispatchFixedAfterNew ==
    pc = "rebuilt" => rebuilt = built.res

\* what holds: Build returns the same as before if the map that was changed is not
\* the one this Builder refers to
C30_DispatchFollowsItsTable ==
    (pc = "rebuilt" /\ tables[builder.ReflectReplacers] = TablesAtNew[builder.ReflectReplacers])
        => rebuilt = built.res

(***************************************************************************)
(* C21, C22: calls leave their inputs alone and do not disturb each other  *)
(***************************************************************************)
\* C21: Serialize, Deserialize, Build, Builds and Weld leave their inputs unchanged
\* whether they succeed or fail: every step of every call leaves the schema, the
\* descriptor list, the payload, and the Builder with its override table and
\* struct-tag function as they were.
C21_InputsUnchanged ==
    [][/\ schema' = schema
       /\ args' = args
       /\ payload' = payload
       /\ builder' = builder
       /\ tables' = tables]_vars

\* a Deserialize call that succeeded on named arguments and a Serialize call that
\* failed have both returned
C21_Witness ==
    /\ calls # <<>>
    /\ calls[1].op = "Deserialize" /\ calls[1].at = "done" /\ calls[1].res.st = "ok"
    /\ Len(args.val) = 2 /\ args.val[2].Name = NameB
    /\ calls[2].op = "Serialize" /\ calls[2].at = "done" /\ calls[2].res.st = "err"

\* what the call returns when it runs alone
Alone(call) ==
    CASE call.op = "Serialize" -> Serialize(schema)
      [] call.op = "Deserialize" -> Deserialize(args.val)
      [] call.op = "Build" -> Build(builder, schema[call.node])
      [] call.op = "Builds" -> Builds(builder, schema)
      [] call.op = "Weld" -> Weld(builder, schema, payload)

\* C22: in every interleaving of concurrent calls on a shared parser and a shared
\* Builder, each call returns what it returns when it runs alone.
C22_ConcurrentCallsAsAlone ==
    \A c \in DOMAIN calls : calls[c].at = "done" => calls[c].res = Alone(calls[c])

\* a Serialize call has returned its descriptors while a Builds call on the same
\* schema is in the middle of its loop
C22_Witness ==
    /\ calls # <<>>
    /\ calls[1].op = "Serialize" /\ calls[1].at = "done" /\ calls[1].res.st = "ok"
    /\ Len(calls[1].res.val) = 2
    /\ calls[2].op = "Builds" /\ calls[2].at = "range" /\ calls[2].i = 2
    /\ Len(slices[2]) = 1

====
